---- MODULE Spec2Model ----
(***************************************************************************)
(* Streaming completion layer of ai-cli: the four provider adapters'       *)
(* per-chunk stream decoders (src/ai/openai.rs, anthropic.rs, gemini.rs,   *)
(* ollama.rs) and the headless aggregator that pulls them                  *)
(* (src/core/brain.rs, Brain::process_query); the adapters' single round   *)
(* trip get_fix_suggestion behind Brain::process_error; and the loop of    *)
(* the interactive session (src/tui/renderer.rs run_app with               *)
(* src/tui/mod.rs handle_key_event and src/tui/state.rs AppState).         *)
(*                                                                         *)
(* The response body is a sequence of wire symbols.  A symbol stands for   *)
(* one byte or for one indivisible run of bytes of the protocol text; a    *)
(* network chunk is any non-empty run of consecutive symbols, so a chunk   *)
(* may end inside the "data: " marker, inside a JSON object, inside a      *)
(* two-byte character, or between a line and its terminator.               *)
(***************************************************************************)
EXTENDS Integers, Sequences, FiniteSets, TLC

\* Largest number of protocol frames in one response body.
MaxFrames == 2

(***************************************************************************)
(* Wire symbols                                                            *)
(***************************************************************************)
LF == "LF"          \* "\n"
CR == "CR"          \* "\r"
SP == " "
P1 == "da"          \* first half of the marker "data: "
P2 == "ta: "        \* second half of the marker "data: "
EV == "event: x"    \* an event-stream line that is not a data line
DONE == "[DONE]"    \* the terminal sentinel payload
XC3 == "xC3"        \* first byte of the two-byte character e-acute
XA9 == "xA9"        \* second byte of the two-byte character e-acute
EACUTE == "e'"      \* the character e-acute once decoded
FFFD == "U+FFFD"    \* the replacement character

\* Characters a content string may hold.
TextChars == {"a", "b", "c", SP, EACUTE, FFFD}
Whitespace == {SP, CR, LF}

\* OpenAI: {"choices":[{"delta":{"content":"..."}} , ... ]}
OC == "{choices:[{delta:{content:'"
OSEP == "'}},{delta:{content:'"
OCL == "'}}]}"
ONONE == "{choices:[{delta:{}}]}"
OBAD == "{id:"

\* Anthropic: {"type":"content_block_delta","delta":{"type":"text_delta","text":"..."}}
AD == "{type:content_block_delta,delta:{type:text_delta,text:'"
ADCL == "'}}"
APING == "{type:ping}"
ABAD == "{type:pi"

\* Gemini: {"candidates":[{"content":{"parts":[{"text":"..."},...]}},...]}
GO == "{candidates:[{content:{parts:[{text:'"
GPART == "'},{text:'"
GCAND == "'}]}},{content:{parts:[{text:'"
GCL == "'}]}}]}"
GEMPTY == "{usageMetadata:{}}"
GBAD == "{usageMeta"

\* Ollama: {"message":{"content":"..."},"done":false}
OM == "{message:{content:'"
OMF == "'},done:false}"
OMT == "'},done:true}"
OMA == "'}}"
OSTAT == "{done:true}"

\* OpenAI, not streamed: {"choices":[{"message":{"content":"..."}},...]}
ORO == "{choices:[{message:{content:'"
ORSEP == "'}},{message:{content:'"
ORCL == "'}}]}"
ORNONE == "{choices:[]}"

\* Anthropic, not streamed: {"content":[{"text":"..."},...]}
ARO == "{content:[{text:'"
ARSEP == "'},{text:'"
ARCL == "'}]}"
ARNONE == "{content:[]}"

(***************************************************************************)
(* Text helpers                                                            *)
(***************************************************************************)
RECURSIVE Concat(_)
\* Vec<String>::join(""): the strings one after the other.
Concat(ss) == IF ss = <<>> THEN <<>> ELSE Head(ss) \o Concat(Tail(ss))

IsText(s) == \A i \in 1..Len(s) : s[i] \in TextChars

RECURSIVE TrimStart(_)
TrimStart(s) ==
    IF s # <<>> /\ Head(s) \in Whitespace THEN TrimStart(Tail(s)) ELSE s

RECURSIVE TrimEnd(_)
TrimEnd(s) ==
    IF s # <<>> /\ s[Len(s)] \in Whitespace
    THEN TrimEnd(SubSeq(s, 1, Len(s) - 1)) ELSE s

\* str::trim
Trim(s) == TrimEnd(TrimStart(s))

RECURSIVE from_utf8_lossy(_)
\* String::from_utf8_lossy on one chunk: a complete two-byte sequence is its
\* character, a byte of it standing alone is U+FFFD, ASCII is unchanged.
from_utf8_lossy(bytes) ==
    IF bytes = <<>> THEN <<>>
    ELSE IF Head(bytes) = XC3 /\ Len(bytes) >= 2 /\ bytes[2] = XA9
         THEN <<EACUTE>> \o from_utf8_lossy(SubSeq(bytes, 3, Len(bytes)))
    ELSE IF Head(bytes) \in {XC3, XA9}
         THEN <<FFFD>> \o from_utf8_lossy(Tail(bytes))
    ELSE <<Head(bytes)>> \o from_utf8_lossy(Tail(bytes))

\* Index of the first occurrence of x in s, 0 when there is none.
IndexOf(s, x) ==
    IF \E i \in 1..Len(s) : s[i] = x
    THEN CHOOSE i \in 1..Len(s) : s[i] = x /\ \A j \in 1..(i - 1) : s[j] # x
    ELSE 0

StripCR(s) ==
    IF s # <<>> /\ s[Len(s)] = CR THEN SubSeq(s, 1, Len(s) - 1) ELSE s

RECURSIVE lines(_)
\* str::lines: split at "\n"; a line excludes its terminator and one "\r"
\* before it; text after the last "\n" is a final line when it is non-empty.
lines(text) ==
    IF text = <<>> THEN <<>>
    ELSE LET i == IndexOf(text, LF) IN
         IF i = 0 THEN <<StripCR(text)>>
         ELSE <<StripCR(SubSeq(text, 1, i - 1))>>
              \o lines(SubSeq(text, i + 1, Len(text)))

\* str::strip_prefix("data: ")
HasDataPrefix(line) == Len(line) >= 2 /\ line[1] = P1 /\ line[2] = P2
strip_prefix(line) == SubSeq(line, 3, Len(line))

RECURSIVE SplitAt(_, _)
\* The runs of s between occurrences of the separator sep.
SplitAt(s, sep) ==
    LET i == IndexOf(s, sep) IN
    IF i = 0 THEN <<s>>
    ELSE <<SubSeq(s, 1, i - 1)>> \o SplitAt(SubSeq(s, i + 1, Len(s)), sep)

\* Stream items: Result<String, anyhow::Error>
\* An error carries its kind and its message, the formatted text as a
\* sequence of runs of characters.
OkItem(t) == [ok |-> TRUE, text |-> t, err |-> "none", message |-> <<>>]
ErrItem(e) == [ok |-> FALSE, text |-> <<>>, err |-> e, message |-> <<e>>]
NoItem == [ok |-> TRUE, text |-> <<>>, err |-> "nothing pulled", message |-> <<>>]

\* anyhow::bail!(fmt, args..) / anyhow::anyhow!(fmt, args..): the error whose
\* message is the format string's literal runs and arguments in order.
FormatErr(kind, parts) ==
    [ok |-> FALSE, text |-> <<>>, err |-> kind, message |-> parts]

\* serde_json::from_str results
ParseOk(v) == [ok |-> TRUE, val |-> v]
ParseErr == [ok |-> FALSE, val |-> <<>>]

Some(t) == <<t>>
None == <<>>

(***************************************************************************)
(* serde_json::from_str into each adapter's stream structure.  serde_json  *)
(* skips whitespace around the value, ignores unknown fields, and fails on *)
(* anything that is not one complete JSON value of the expected shape.     *)
(***************************************************************************)
Inner(t) == SubSeq(t, 2, Len(t) - 1)

\* struct OpenAIStreamChunk { choices: Vec<OpenAIChoice> },
\* OpenAIChoice { delta: OpenAIDelta { content: Option<String> }, .. }
OpenAIStreamChunk_from_str(json_str) ==
    LET t == Trim(json_str) IN
    IF t = <<ONONE>>
    THEN ParseOk([choices |-> <<[delta |-> [content |-> None]]>>])
    ELSE IF Len(t) >= 2 /\ t[1] = OC /\ t[Len(t)] = OCL
            /\ \A i \in 1..Len(SplitAt(Inner(t), OSEP)) :
                   IsText(SplitAt(Inner(t), OSEP)[i])
    THEN LET cs == SplitAt(Inner(t), OSEP) IN
         ParseOk([choices |->
             [i \in 1..Len(cs) |-> [delta |-> [content |-> Some(cs[i])]]]])
    ELSE ParseErr

\* struct AnthropicStreamEvent { type: String, delta: Option<AnthropicDelta> },
\* AnthropicDelta { type: String, text: Option<String> }
AnthropicStreamEvent_from_str(json_str) ==
    LET t == Trim(json_str) IN
    IF t = <<APING>>
    THEN ParseOk([event_type |-> "ping", delta |-> None])
    ELSE IF Len(t) >= 2 /\ t[1] = AD /\ t[Len(t)] = ADCL /\ IsText(Inner(t))
    THEN ParseOk([event_type |-> "content_block_delta",
                  delta |-> Some([delta_type |-> "text_delta",
                                  text |-> Some(Inner(t))])])
    ELSE ParseErr

\* The JSON objects of the Ollama protocol that carry a "done" field.
IsOllamaObject(t) ==
    \/ t = <<OSTAT>>
    \/ Len(t) >= 2 /\ t[1] = OM /\ t[Len(t)] \in {OMF, OMT} /\ IsText(Inner(t))

\* struct OllamaStreamChunk { message: Option<OllamaMessageContent>, done: bool }
\* "done" has no default: an object without it does not deserialize.
OllamaStreamChunk_from_str(line) ==
    LET t == Trim(line) IN
    IF t = <<OSTAT>> THEN ParseOk([message |-> None, done |-> TRUE])
    ELSE IF IsOllamaObject(t)
    THEN ParseOk([message |-> Some([content |-> Inner(t)]),
                  done |-> (t[Len(t)] = OMT)])
    ELSE ParseErr

\* struct GeminiStreamResponse { #[serde(default)] candidates: Vec<GeminiCandidate> },
\* GeminiCandidate { content: { parts: Vec<{ text: String }> } }
\* candidates defaults to empty and unknown fields are ignored, so any JSON
\* object without candidates deserializes, an Ollama object included.
GeminiStreamResponse_from_str(line) ==
    LET t == Trim(line) IN
    IF t = <<GEMPTY>> \/ IsOllamaObject(t)
    THEN ParseOk([candidates |-> <<>>])
    ELSE IF Len(t) >= 2 /\ t[1] = GO /\ t[Len(t)] = GCL
            /\ \A i \in 1..Len(SplitAt(Inner(t), GCAND)) :
                 \A j \in 1..Len(SplitAt(SplitAt(Inner(t), GCAND)[i], GPART)) :
                   IsText(SplitAt(SplitAt(Inner(t), GCAND)[i], GPART)[j])
    THEN LET cands == SplitAt(Inner(t), GCAND) IN
         ParseOk([candidates |->
             [i \in 1..Len(cands) |->
                 [content |-> [parts |->
                     LET ps == SplitAt(cands[i], GPART) IN
                     [j \in 1..Len(ps) |-> [text |-> ps[j]]]]]]])
    ELSE ParseErr

(***************************************************************************)
(* The closures mapped over response.bytes_stream(): one chunk in, one     *)
(* stream item out.  No state is carried from one chunk to the next.       *)
(***************************************************************************)
\* The non-empty strings of a sequence of Option<String>, in order.
NonEmptyTexts(opts) ==
    LET kept == SelectSeq(opts, LAMBDA o : o # None /\ o[1] # <<>>) IN
    [i \in 1..Len(kept) |-> kept[i][1]]

\* Mutation: the sentinel compared without trimming.
IsDoneSentinel_NoTrim(json_str) == json_str = <<DONE>>

\* openai.rs: json_str.trim() == "[DONE]"
IsDoneSentinel(json_str) == Trim(json_str) = <<DONE>>

\* openai.rs: for choice in chunk.choices { if let Some(content) ... push }
OpenAITokens(chunk) ==
    NonEmptyTexts([i \in 1..Len(chunk.choices) |-> chunk.choices[i].delta.content])

RECURSIVE OpenAILines(_, _)
\* openai.rs: the body of `for line in text.lines()`, tokens pushed so far.
OpenAILines(ls, tokens) ==
    IF ls = <<>> THEN OkItem(Concat(tokens))
    ELSE IF ~HasDataPrefix(Head(ls)) THEN OpenAILines(Tail(ls), tokens)
    ELSE IF IsDoneSentinel(strip_prefix(Head(ls)))
         THEN OpenAILines(Tail(ls), tokens)
    ELSE LET r == OpenAIStreamChunk_from_str(strip_prefix(Head(ls))) IN
         IF r.ok THEN OpenAILines(Tail(ls), tokens \o OpenAITokens(r.val))
         ELSE ErrItem("Failed to parse SSE")

OpenAIClient_stream_impl(bytes) == OpenAILines(lines(from_utf8_lossy(bytes)), <<>>)

\* anthropic.rs: content_block_delta events with a delta that has text.
AnthropicTokens(event) ==
    IF event.event_type = "content_block_delta" /\ event.delta # None
    THEN NonEmptyTexts(<<event.delta[1].text>>)
    ELSE <<>>

RECURSIVE AnthropicLines(_, _)
\* anthropic.rs: the body of `for line in text.lines()`; Err(_) => continue.
AnthropicLines(ls, tokens) ==
    IF ls = <<>> THEN OkItem(Concat(tokens))
    ELSE IF ~HasDataPrefix(Head(ls)) THEN AnthropicLines(Tail(ls), tokens)
    ELSE LET r == AnthropicStreamEvent_from_str(strip_prefix(Head(ls))) IN
         IF r.ok THEN AnthropicLines(Tail(ls), tokens \o AnthropicTokens(r.val))
         ELSE AnthropicLines(Tail(ls), tokens)

AnthropicClient_stream_impl(bytes) ==
    AnthropicLines(lines(from_utf8_lossy(bytes)), <<>>)

\* Mutation: only the first part of each candidate is taken.
GeminiTokens_FirstPart(response) ==
    LET perCandidate ==
            [i \in 1..Len(response.candidates) |->
                LET ps == response.candidates[i].content.parts IN
                NonEmptyTexts(IF ps = <<>> THEN <<>> ELSE <<Some(ps[1].text)>>)]
    IN Concat(perCandidate)

\* gemini.rs: for candidate in response.candidates { for part in ...parts }
GeminiTokens(response) ==
    LET perCandidate ==
            [i \in 1..Len(response.candidates) |->
                LET ps == response.candidates[i].content.parts IN
                NonEmptyTexts([j \in 1..Len(ps) |-> Some(ps[j].text)])]
    IN Concat(perCandidate)

RECURSIVE GeminiLines(_, _)
\* gemini.rs: the body of `for line in text.lines()`; Err(_) => continue.
GeminiLines(ls, tokens) ==
    IF ls = <<>> THEN OkItem(Concat(tokens))
    ELSE IF Trim(Head(ls)) = <<>> THEN GeminiLines(Tail(ls), tokens)
    ELSE LET r == GeminiStreamResponse_from_str(Head(ls)) IN
         IF r.ok THEN GeminiLines(Tail(ls), tokens \o GeminiTokens(r.val))
         ELSE GeminiLines(Tail(ls), tokens)

GeminiClient_stream_impl(bytes) == GeminiLines(lines(from_utf8_lossy(bytes)), <<>>)

\* ollama.rs: if let Some(msg) = chunk.message { if !msg.content.is_empty() }
\* The done field is read by nothing.
OllamaTokens(chunk) ==
    IF chunk.message # None
    THEN NonEmptyTexts(<<Some(chunk.message[1].content)>>)
    ELSE <<>>

RECURSIVE OllamaLines_DoneEnds(_, _)
\* Mutation: a line with done = true ends the decoding of the chunk.
OllamaLines_DoneEnds(ls, tokens) ==
    IF ls = <<>> THEN OkItem(Concat(tokens))
    ELSE IF Trim(Head(ls)) = <<>> THEN OllamaLines_DoneEnds(Tail(ls), tokens)
    ELSE LET r == OllamaStreamChunk_from_str(Head(ls)) IN
         IF ~r.ok THEN ErrItem("Failed to parse NDJSON")
         ELSE IF r.val.done THEN OkItem(Concat(tokens \o OllamaTokens(r.val)))
         ELSE OllamaLines_DoneEnds(Tail(ls), tokens \o OllamaTokens(r.val))

RECURSIVE OllamaLines(_, _)
\* ollama.rs: the body of `for line in text.lines()`; Err(e) => return Err.
OllamaLines(ls, tokens) ==
    IF ls = <<>> THEN OkItem(Concat(tokens))
    ELSE IF Trim(Head(ls)) = <<>> THEN OllamaLines(Tail(ls), tokens)
    ELSE LET r == OllamaStreamChunk_from_str(Head(ls)) IN
         IF r.ok THEN OllamaLines(Tail(ls), tokens \o OllamaTokens(r.val))
         ELSE ErrItem("Failed to parse NDJSON")

OllamaClient_stream_impl(bytes) == OllamaLines(lines(from_utf8_lossy(bytes)), <<>>)

Providers == {"openai", "anthropic", "gemini", "ollama"}
EventStreamProviders == {"openai", "anthropic"}
LineJsonProviders == {"gemini", "ollama"}

\* dyn AIProvider: the item the provider's stream yields for one chunk.
stream_item(provider, bytes) ==
    CASE provider = "openai" -> OpenAIClient_stream_impl(bytes)
      [] provider = "anthropic" -> AnthropicClient_stream_impl(bytes)
      [] provider = "gemini" -> GeminiClient_stream_impl(bytes)
      [] provider = "ollama" -> OllamaClient_stream_impl(bytes)

(***************************************************************************)
(* Response bodies.  A frame is one protocol line with its terminator; it  *)
(* is listed with what the provider put in it: its kind, the content text  *)
(* it carries and (Ollama) its done flag.  A "partial" frame is a line the *)
(* connection closed in the middle of.                                     *)
(***************************************************************************)
Frame(b, k, t, d) == [bytes |-> b, kind |-> k, text |-> t, done |-> d]

OpenAIFrames ==
    { Frame(<<P1, P2, OC, "a", OCL, LF>>, "content", <<"a">>, "none"),
      Frame(<<P1, P2, OC, "b", OSEP, OSEP, XC3, XA9, OCL, LF>>, "content",
            <<"b", EACUTE>>, "none"),
      Frame(<<P1, P2, OC, SP, "c", SP, OCL, LF>>, "content", <<SP, "c", SP>>, "none"),
      Frame(<<P1, P2, ONONE, LF>>, "control", <<>>, "none"),
      Frame(<<P1, P2, DONE, LF>>, "sentinel", <<>>, "none"),
      Frame(<<P1, P2, SP, DONE, CR, LF>>, "sentinel", <<>>, "none"),
      Frame(<<LF>>, "blank", <<>>, "none"),
      Frame(<<P1, P2, OBAD, LF>>, "bad_control", <<>>, "none"),
      Frame(<<P1, P2, OC, "a", LF>>, "bad_content", <<>>, "none"),
      Frame(<<P1, P2, OC, "a">>, "partial", <<>>, "none") }

AnthropicFrames ==
    { Frame(<<P1, P2, AD, "a", ADCL, LF>>, "content", <<"a">>, "none"),
      Frame(<<P1, P2, AD, "b", XC3, XA9, ADCL, LF>>, "content",
            <<"b", EACUTE>>, "none"),
      Frame(<<P1, P2, AD, SP, "c", SP, ADCL, LF>>, "content", <<SP, "c", SP>>, "none"),
      Frame(<<P1, P2, APING, LF>>, "control", <<>>, "none"),
      Frame(<<EV, LF>>, "comment", <<>>, "none"),
      Frame(<<P1, P2, DONE, LF>>, "sentinel", <<>>, "none"),
      Frame(<<P1, P2, SP, DONE, CR, LF>>, "sentinel", <<>>, "none"),
      Frame(<<LF>>, "blank", <<>>, "none"),
      Frame(<<P1, P2, ABAD, LF>>, "bad_control", <<>>, "none"),
      Frame(<<P1, P2, AD, "a", LF>>, "bad_content", <<>>, "none"),
      Frame(<<P1, P2, AD, "a">>, "partial", <<>>, "none") }

GeminiFrames ==
    { Frame(<<GO, "a", GCL, LF>>, "content", <<"a">>, "none"),
      Frame(<<GO, "a", GPART, GPART, "b", GCAND, XC3, XA9, GCL, LF>>, "content",
            <<"a", "b", EACUTE>>, "none"),
      Frame(<<GO, SP, "c", SP, GCL, LF>>, "content", <<SP, "c", SP>>, "none"),
      Frame(<<GEMPTY, LF>>, "control", <<>>, "none"),
      Frame(<<CR, LF>>, "blank", <<>>, "none"),
      Frame(<<GBAD, LF>>, "bad_control", <<>>, "none"),
      Frame(<<GO, "a", LF>>, "bad_content", <<>>, "none"),
      Frame(<<GO, "a">>, "partial", <<>>, "none") }

OllamaFrames ==
    { Frame(<<OM, "a", OMF, LF>>, "content", <<"a">>, "false"),
      Frame(<<OM, "b", XC3, XA9, OMT, LF>>, "content", <<"b", EACUTE>>, "true"),
      Frame(<<OM, SP, "c", SP, OMF, LF>>, "content", <<SP, "c", SP>>, "false"),
      Frame(<<OSTAT, LF>>, "control", <<>>, "true"),
      Frame(<<OM, "c", OMA, LF>>, "content", <<"c">>, "absent"),
      Frame(<<CR, LF>>, "blank", <<>>, "none"),
      Frame(<<OM, "a", LF>>, "bad_content", <<>>, "none"),
      Frame(<<OM, "a">>, "partial", <<>>, "none") }

FramesOf(provider) ==
    CASE provider = "openai" -> OpenAIFrames
      [] provider = "anthropic" -> AnthropicFrames
      [] provider = "gemini" -> GeminiFrames
      [] provider = "ollama" -> OllamaFrames

\* Bodies of at most MaxFrames frames; only the last may be partial.
Bodies(provider) ==
    { fs \in UNION { [1..n -> FramesOf(provider)] : n \in 0..MaxFrames } :
        \A i \in 1..(Len(fs) - 1) : fs[i].kind # "partial" }

RECURSIVE BytesOf(_)
BytesOf(fs) == IF fs = <<>> THEN <<>> ELSE Head(fs).bytes \o BytesOf(Tail(fs))

(***************************************************************************)
(* The HTTP round trip.  Both stream_impl and get_fix_suggestion await     *)
(* send(), test response.status().is_success(), and on a non-success       *)
(* status read the body with response.text().await.unwrap_or_default().    *)
(***************************************************************************)
Statuses == {200, 401, 429, 500}

\* http::StatusCode::is_success
is_success(status) == 200 <= status /\ status <= 299

\* impl Display for StatusCode: the code and its canonical reason.
StatusDisplay(status) ==
    CASE status = 200 -> "200 OK"
      [] status = 401 -> "401 Unauthorized"
      [] status = 429 -> "429 Too Many Requests"
      [] status = 500 -> "500 Internal Server Error"

\* Bodies a provider sends with a non-success status.
ErrorBodies == { <<>>, <<"a">>, <<"b", XC3, XA9>> }

\* One round trip as the server and the network decide it: whether send()
\* connected, the status, the body, and whether the body could be read.
RoundTrip(c, s, b, r) ==
    [requested |-> TRUE, connected |-> c, status |-> s, body |-> b, read |-> r]
NoExchange ==
    [requested |-> FALSE, connected |-> FALSE, status |-> 0, body |-> <<>>,
     read |-> FALSE]

\* response.text().await.unwrap_or_default(): the decoded body, or the empty
\* string when reading it failed.
error_text(rt) == IF rt.read THEN from_utf8_lossy(rt.body) ELSE <<>>

ProviderName(provider) ==
    CASE provider = "openai" -> "OpenAI"
      [] provider = "anthropic" -> "Anthropic"
      [] provider = "gemini" -> "Gemini"
      [] provider = "ollama" -> "Ollama"

\* The environment variable each from_env reads; OllamaClient takes none.
Credential(provider) ==
    CASE provider = "openai" -> Some("AETHER_OPENAI_API_KEY")
      [] provider = "anthropic" -> Some("AETHER_ANTHROPIC_API_KEY")
      [] provider = "gemini" -> Some("AETHER_GEMINI_API_KEY")
      [] provider = "ollama" -> None

\* stream_impl, send().await.map_err(..)?
StreamConnectError(provider) ==
    FormatErr("Failed to connect",
        <<"Failed to connect to ", ProviderName(provider), ": ", "transport error">>
        \o (IF provider = "ollama" THEN <<". Is Ollama running?">>
            ELSE <<". Check your internet connection and API key.">>))

\* stream_impl, anyhow::bail! on !response.status().is_success()
StreamApiError(provider, rt) ==
    FormatErr("API error",
        <<ProviderName(provider), " API error (status ", StatusDisplay(rt.status), "): ">>
        \o error_text(rt)
        \o (IF provider = "ollama" THEN <<>>
            ELSE <<". Check your ", Credential(provider)[1], ".">>))

\* get_fix_suggestion, send().await.map_err(..)?
FixConnectError(provider) ==
    FormatErr("Failed to connect",
        <<"Failed to connect to ", ProviderName(provider), ": ", "transport error">>)

\* get_fix_suggestion, anyhow::bail! on !response.status().is_success()
FixApiError(provider, rt) ==
    FormatErr("API error",
        <<ProviderName(provider), " API error (status ", StatusDisplay(rt.status), "): ">>
        \o error_text(rt))

(***************************************************************************)
(* get_fix_suggestion: one round trip, not streamed.                       *)
(***************************************************************************)
\* struct OpenAICompletionResponse { choices: Vec<OpenAICompletionChoice> },
\* OpenAICompletionChoice { message: OpenAICompletionMessage { content: String } }
OpenAICompletionResponse_from_str(json_str) ==
    LET t == Trim(json_str) IN
    IF t = <<ORNONE>> THEN ParseOk([choices |-> <<>>])
    ELSE IF Len(t) >= 2 /\ t[1] = ORO /\ t[Len(t)] = ORCL
            /\ \A i \in 1..Len(SplitAt(Inner(t), ORSEP)) :
                   IsText(SplitAt(Inner(t), ORSEP)[i])
    THEN LET cs == SplitAt(Inner(t), ORSEP) IN
         ParseOk([choices |->
             [i \in 1..Len(cs) |-> [message |-> [content |-> cs[i]]]]])
    ELSE ParseErr

\* struct AnthropicResponse { content: Vec<AnthropicContent { text: String }> }
AnthropicResponse_from_str(json_str) ==
    LET t == Trim(json_str) IN
    IF t = <<ARNONE>> THEN ParseOk([content |-> <<>>])
    ELSE IF Len(t) >= 2 /\ t[1] = ARO /\ t[Len(t)] = ARCL
            /\ \A i \in 1..Len(SplitAt(Inner(t), ARSEP)) :
                   IsText(SplitAt(Inner(t), ARSEP)[i])
    THEN LET bs == SplitAt(Inner(t), ARSEP) IN
         ParseOk([content |-> [i \in 1..Len(bs) |-> [text |-> bs[i]]]])
    ELSE ParseErr

\* response.json().await: the whole body is read, then deserialized with
\* serde_json::from_slice, which rejects bytes that are not UTF-8.  The text
\* handed to the deserializer, or None when there is none.
response_json(rt) ==
    IF ~rt.read THEN None
    ELSE IF \E i \in 1..Len(from_utf8_lossy(rt.body)) :
                from_utf8_lossy(rt.body)[i] = FFFD
    THEN None
    ELSE Some(from_utf8_lossy(rt.body))

\* The fallback text of every adapter.
NoResponse == <<"No response from model">>

\* `response.json().await?`: the reqwest error goes to the caller.
JsonError == ErrItem("error decoding response body")

\* Mutation: a response without choices is an error.
OpenAIClient_get_fix_suggestion_ErrOnNone(rt) ==
    IF ~rt.connected THEN FixConnectError("openai")
    ELSE IF ~is_success(rt.status) THEN FixApiError("openai", rt)
    ELSE LET r == IF response_json(rt) = None THEN ParseErr
                  ELSE OpenAICompletionResponse_from_str(response_json(rt)[1]) IN
         IF ~r.ok THEN JsonError
         ELSE IF r.val.choices = <<>> THEN JsonError
         ELSE OkItem(r.val.choices[1].message.content)

\* openai.rs: choices.first().map(|c| c.message.content.clone())
\*            .unwrap_or_else(|| "No response from model")
OpenAIClient_get_fix_suggestion(rt) ==
    IF ~rt.connected THEN FixConnectError("openai")
    ELSE IF ~is_success(rt.status) THEN FixApiError("openai", rt)
    ELSE LET r == IF response_json(rt) = None THEN ParseErr
                  ELSE OpenAICompletionResponse_from_str(response_json(rt)[1]) IN
         IF ~r.ok THEN JsonError
         ELSE IF r.val.choices = <<>> THEN OkItem(NoResponse)
         ELSE OkItem(r.val.choices[1].message.content)

\* anthropic.rs: content.first().map(|c| c.text.clone())
AnthropicClient_get_fix_suggestion(rt) ==
    IF ~rt.connected THEN FixConnectError("anthropic")
    ELSE IF ~is_success(rt.status) THEN FixApiError("anthropic", rt)
    ELSE LET r == IF response_json(rt) = None THEN ParseErr
                  ELSE AnthropicResponse_from_str(response_json(rt)[1]) IN
         IF ~r.ok THEN JsonError
         ELSE IF r.val.content = <<>> THEN OkItem(NoResponse)
         ELSE OkItem(r.val.content[1].text)

\* gemini.rs: candidates.first().and_then(|c| c.content.parts.first())
\*                .map(|p| p.text.clone())
GeminiClient_get_fix_suggestion(rt) ==
    IF ~rt.connected THEN FixConnectError("gemini")
    ELSE IF ~is_success(rt.status) THEN FixApiError("gemini", rt)
    ELSE LET r == IF response_json(rt) = None THEN ParseErr
                  ELSE GeminiStreamResponse_from_str(response_json(rt)[1]) IN
         IF ~r.ok THEN JsonError
         ELSE IF r.val.candidates = <<>> THEN OkItem(NoResponse)
         ELSE IF r.val.candidates[1].content.parts = <<>> THEN OkItem(NoResponse)
         ELSE OkItem(r.val.candidates[1].content.parts[1].text)

\* ollama.rs: chunk.message.map(|m| m.content)
OllamaClient_get_fix_suggestion(rt) ==
    IF ~rt.connected THEN FixConnectError("ollama")
    ELSE IF ~is_success(rt.status) THEN FixApiError("ollama", rt)
    ELSE LET r == IF response_json(rt) = None THEN ParseErr
                  ELSE OllamaStreamChunk_from_str(response_json(rt)[1]) IN
         IF ~r.ok THEN JsonError
         ELSE IF r.val.message = None THEN OkItem(NoResponse)
         ELSE OkItem(r.val.message[1].content)

\* dyn AIProvider: get_fix_suggestion of the provider in use.
get_fix_suggestion(provider, rt) ==
    CASE provider = "openai" -> OpenAIClient_get_fix_suggestion(rt)
      [] provider = "anthropic" -> AnthropicClient_get_fix_suggestion(rt)
      [] provider = "gemini" -> GeminiClient_get_fix_suggestion(rt)
      [] provider = "ollama" -> OllamaClient_get_fix_suggestion(rt)

\* Bodies a provider sends with a success status, each listed with what the
\* provider put in it: its candidates, each a sequence of part texts
\* (OpenAI: a choice is a candidate of one part; Anthropic: the content
\* blocks are the parts of the one candidate), or "bad" for a body that is
\* not a response object.
FixResponse(b, k, c) == [bytes |-> b, kind |-> k, candidates |-> c]

OpenAIFixResponses ==
    { FixResponse(<<ORO, "a", ORCL>>, "answer", << << <<"a">> >> >>),
      FixResponse(<<SP, ORO, "a", "b", ORSEP, "c", ORCL, LF>>, "answer",
                  << << <<"a", "b">> >>, << <<"c">> >> >>),
      FixResponse(<<ORO, XC3, XA9, ORCL>>, "answer", << << <<EACUTE>> >> >>),
      FixResponse(<<ORNONE>>, "none", <<>>),
      FixResponse(<<OC, "a", OCL>>, "bad", <<>>),
      FixResponse(<<ORO, "a">>, "bad", <<>>),
      FixResponse(<<>>, "bad", <<>>) }

AnthropicFixResponses ==
    { FixResponse(<<ARO, "a", ARCL>>, "answer", << << <<"a">> >> >>),
      FixResponse(<<ARO, "a", ARSEP, "b", ARCL, LF>>, "answer",
                  << << <<"a">>, <<"b">> >> >>),
      FixResponse(<<ARO, XC3, XA9, ARCL>>, "answer", << << <<EACUTE>> >> >>),
      FixResponse(<<ARNONE>>, "none", <<>>),
      FixResponse(<<APING>>, "bad", <<>>),
      FixResponse(<<ARO, "a">>, "bad", <<>>),
      FixResponse(<<>>, "bad", <<>>) }

GeminiFixResponses ==
    { FixResponse(<<GO, "a", GCL>>, "answer", << << <<"a">> >> >>),
      FixResponse(<<GO, "a", GPART, "b", GCL, LF>>, "answer",
                  << << <<"a">>, <<"b">> >> >>),
      FixResponse(<<GO, "a", GCAND, "b", GCL>>, "answer",
                  << << <<"a">> >>, << <<"b">> >> >>),
      FixResponse(<<GO, XC3, XA9, GPART, "c", GCAND, "b", GCL>>, "answer",
                  << << <<EACUTE>>, <<"c">> >>, << <<"b">> >> >>),
      FixResponse(<<GEMPTY>>, "none", <<>>),
      FixResponse(<<GBAD>>, "bad", <<>>),
      FixResponse(<<GO, "a">>, "bad", <<>>),
      FixResponse(<<>>, "bad", <<>>) }

OllamaFixResponses ==
    { FixResponse(<<OM, "a", OMT>>, "answer", << << <<"a">> >> >>),
      FixResponse(<<SP, OM, "a", "b", OMF, LF>>, "answer", << << <<"a", "b">> >> >>),
      FixResponse(<<OM, XC3, XA9, OMT>>, "answer", << << <<EACUTE>> >> >>),
      FixResponse(<<OSTAT>>, "none", <<>>),
      FixResponse(<<OM, "c", OMA>>, "bad", <<>>),
      FixResponse(<<OM, "a">>, "bad", <<>>),
      FixResponse(<<>>, "bad", <<>>) }

FixResponsesOf(provider) ==
    CASE provider = "openai" -> OpenAIFixResponses
      [] provider = "anthropic" -> AnthropicFixResponses
      [] provider = "gemini" -> GeminiFixResponses
      [] provider = "ollama" -> OllamaFixResponses

(***************************************************************************)
(* Strings of characters, and the danger list of core/executor.rs.         *)
(***************************************************************************)
\* The characters of a string literal, in order.
Chars(s) == [i \in 1..Len(s) |-> SubSeq(s, i, i)]

UpperCase == Chars("ABCDEFGHIJKLMNOPQRSTUVWXYZ")
LowerCase == Chars("abcdefghijklmnopqrstuvwxyz")

\* char::to_lowercase and char::to_uppercase on the characters used here
\* (ASCII letters map to their counterpart, every other character to itself).
lower_char(c) ==
    IF \E i \in 1..Len(UpperCase) : UpperCase[i] = c
    THEN LowerCase[CHOOSE i \in 1..Len(UpperCase) : UpperCase[i] = c]
    ELSE c
upper_char(c) ==
    IF \E i \in 1..Len(LowerCase) : LowerCase[i] = c
    THEN UpperCase[CHOOSE i \in 1..Len(LowerCase) : LowerCase[i] = c]
    ELSE c

\* str::to_lowercase, str::to_uppercase
to_lowercase(s) == [i \in 1..Len(s) |-> lower_char(s[i])]
to_uppercase(s) == [i \in 1..Len(s) |-> upper_char(s[i])]

\* str::contains(pattern): the pattern occurs in s as a contiguous substring
\* (the empty pattern occurs in every string).
contains(s, pattern) ==
    \E i \in 0..(Len(s) - Len(pattern)) : SubSeq(s, i + 1, i + Len(pattern)) = pattern

\* executor.rs:9-22, the array dangerous_patterns, entry by entry
dangerous_patterns ==
    << Chars("rm -rf"), Chars("rm -fr"), Chars("drop table"),
       Chars("drop database"), Chars("delete from"), Chars("truncate"),
       Chars("mkfs"), Chars("dd if="), Chars("> /dev/"),
       Chars(":(){ :|:& };:"), Chars("chmod -R 777"), Chars("chown -R") >>

\* executor.rs:24-27: the command is lowercased, the patterns are taken as
\* they are written.
is_destructive(cmd) ==
    LET command_lower == to_lowercase(cmd) IN
    \E i \in 1..Len(dangerous_patterns) : contains(command_lower, dangerous_patterns[i])

\* executor.rs:32-38, which of the two texts analyze_command formats
analyze_command(cmd) ==
    IF is_destructive(cmd) THEN "WARNING: This command appears to be destructive!"
    ELSE "This command appears safe to execute."

\* brain.rs:68-74, Brain::analyze_command
Brain_analyze_command(cmd) ==
    [command |-> cmd, is_destructive |-> is_destructive(cmd),
     description |-> analyze_command(cmd)]

(***************************************************************************)
(* The test double: ai/mock.rs.                                            *)
(*                                                                         *)
(* `responses` is a std HashMap.  The model keeps its entries in insertion *)
(* order and the instance's hasher as a number: the order in which the     *)
(* map is iterated is not specified and differs from one map to another    *)
(* (every HashMap::new() draws its own RandomState), so the model iterates *)
(* the entries starting at the entry the hasher selects, which lets every  *)
(* entry be the first one visited.                                         *)
(***************************************************************************)
\* with_response calls made on one provider.
MaxCustom == 1

\* mock.rs:107, .chunks(5)
ChunkSize == 5

\* Requests in flight at once on one provider.
MaxRequests == 2
Requests == 1..MaxRequests

Entry(key, value) == [key |-> Chars(key), value |-> Chars(value)]

\* mock.rs:17-54, MockAIProvider::new
PredefinedResponses ==
    << Entry("list files", "ls -la"),
       Entry("find python files", "find . -name '*.py'"),
       Entry("undo last git commit", "git reset --soft HEAD~1"),
       Entry("undo last 3 git commits", "git reset --soft HEAD~3"),
       Entry("show git status", "git status"),
       Entry("find all python files modified yesterday and tar them",
             "find . -name '*.py' -mtime -1 | xargs tar -cvf archive.tar"),
       Entry("delete all log files", "find . -name '*.log' -delete") >>

MockAIProvider_new(hasher) ==
    [responses |-> PredefinedResponses,
     default_response |-> Chars("echo 'Command not found in mock responses'"),
     hasher |-> hasher]

\* HashMap::insert: the value of an existing key is replaced.
insert(responses, key, value) ==
    IF \E i \in 1..Len(responses) : responses[i].key = key
    THEN [i \in 1..Len(responses) |->
            IF responses[i].key = key THEN [key |-> key, value |-> value]
            ELSE responses[i]]
    ELSE Append(responses, [key |-> key, value |-> value])

\* HashMap::get
get(responses, key) ==
    IF \E i \in 1..Len(responses) : responses[i].key = key
    THEN Some(responses[CHOOSE i \in 1..Len(responses) : responses[i].key = key].value)
    ELSE None

\* `for (key, value) in &self.responses`: the entries in this instance's
\* iteration order.
iter(provider) ==
    LET n == Len(provider.responses) IN
    [i \in 1..n |-> provider.responses[((i - 1 + provider.hasher) % n) + 1]]

\* mock.rs:56-60
with_response(provider, q, r) ==
    [provider EXCEPT !.responses = insert(@, q, r)]

\* mock.rs:63-66
with_default(provider, r) ==
    [provider EXCEPT !.default_response = r]

get_response_one_way(provider, q) ==
    LET query_lower == to_lowercase(q)
        entries == iter(provider)
        matching == { i \in 1..Len(entries) : contains(query_lower, entries[i].key) }
    IN IF get(provider.responses, query_lower) # None
       THEN get(provider.responses, query_lower)[1]
       ELSE IF matching # {}
       THEN entries[CHOOSE i \in matching : \A j \in matching : i <= j].value
       ELSE provider.default_response

\* mock.rs:69-86
get_response(provider, q) ==
    LET query_lower == to_lowercase(q)
        entries == iter(provider)
        matching == { i \in 1..Len(entries) :
                        \/ contains(query_lower, entries[i].key)
                        \/ contains(entries[i].key, query_lower) }
    IN IF get(provider.responses, query_lower) # None
       THEN get(provider.responses, query_lower)[1]
       ELSE IF matching # {}
       THEN entries[CHOOSE i \in matching : \A j \in matching : i <= j].value
       ELSE provider.default_response

\* slice::chunks_exact(5): the pieces of full size only
chunks_exact(text) ==
    [i \in 1..(Len(text) \div ChunkSize) |->
        SubSeq(text, (i - 1) * ChunkSize + 1, i * ChunkSize)]

\* mock.rs:104-109, chars().collect::<Vec<_>>().chunks(5), each collected
\* into a String
chunks(text) ==
    [i \in 1..((Len(text) + ChunkSize - 1) \div ChunkSize) |->
        SubSeq(text, (i - 1) * ChunkSize + 1,
               IF i * ChunkSize <= Len(text) THEN i * ChunkSize ELSE Len(text))]

\* mock.rs:111, stream::iter(chunks.into_iter().map(Ok))
stream_iter(cs) == [i \in 1..Len(cs) |-> OkItem(cs[i])]

(***************************************************************************)
(* The command line: main.rs.                                              *)
(***************************************************************************)
\* main.rs:14-29 and 31-45: the subcommand (None, or Some of Inject with
\* its shell, Lens, Pipe, Sentinel), the --mode option, and standard input.
Inject(shell) == Some([name |-> "Inject", shell |-> shell])
Subcommand(name) == Some([name |-> name, shell |-> ""])
Cli(cmd, mode, stdin) == [command |-> cmd, mode |-> mode, stdin |-> stdin]

Ran(what, out, err, status) ==
    [ran |-> what, stdout |-> out, stderr |-> err, status |-> status]

\* main.rs:79-92
inject_shell_integration(shell) ==
    CASE shell = "zsh" -> Ran("inject", "shell_integration/zsh.sh", "", 0)
      [] shell = "bash" -> Ran("inject", "shell_integration/bash.sh", "", 0)
      [] OTHER -> Ran("inject", "", "Unsupported shell", 1)

\* main.rs:94-115
run_pipe_mode(stdin) ==
    IF stdin = ""
    THEN Ran("pipe", "", "Error: No input provided via stdin", 1)
    ELSE Ran("pipe", "Received bytes of input", "", 0)

\* main.rs:117-121
run_sentinel_mode == Ran("sentinel", "", "Sentinel mode not yet implemented", 0)

\* tui/renderer.rs:19-36: the session ends normally, or init_terminal,
\* run_app or restore_terminal returns an error.
run_lens_mode == { Ran("lens", "", "", 0), Ran("lens", "", "Error", 1) }

\* An arm `Some(Commands::X) | None if cli.mode == m`: the guard belongs
\* to the whole or-pattern, so it is tested for Some(X) as for None.
ArmTaken(cli, name, mode) ==
    /\ cli.command = None \/ (cli.command # None /\ cli.command[1].name = name)
    /\ cli.mode = mode

\* main.rs:60-77, the outcomes of `match &cli.command`
main(cli) ==
    IF cli.command # None /\ cli.command[1].name = "Inject"
    THEN { inject_shell_integration(cli.command[1].shell) }
    ELSE IF ArmTaken(cli, "Lens", "lens") THEN run_lens_mode
    ELSE IF ArmTaken(cli, "Pipe", "pipe") THEN { run_pipe_mode(cli.stdin) }
    ELSE IF ArmTaken(cli, "Sentinel", "sentinel") THEN { run_sentinel_mode }
    ELSE { Ran("unknown", "", "Unknown mode or command", 1) }

(***************************************************************************)
(* The constructors from the environment: from_env of ai/openai.rs,        *)
(* ai/anthropic.rs and ai/gemini.rs.                                       *)
(***************************************************************************)
CloudProviders == {"openai", "anthropic", "gemini"}
EnvNames == { Credential(provider)[1] : provider \in CloudProviders }

\* A variable of the environment: absent, holding bytes that are not valid
\* Unicode, or holding a string.
NotPresent == [set |-> FALSE, unicode |-> FALSE, value |-> ""]
NotUnicode == [set |-> TRUE, unicode |-> FALSE, value |-> ""]
Present(v) == [set |-> TRUE, unicode |-> TRUE, value |-> v]

\* std::env::var: Err(VarError::NotPresent) for an absent variable,
\* Err(VarError::NotUnicode(_)) for one that is not valid Unicode.
env_var(env, name) ==
    IF env[name].set /\ env[name].unicode THEN ParseOk(env[name].value)
    ELSE ParseErr

\* Mutation: a missing key becomes the empty key.
from_env_unwrap_or_default(provider, model, env) ==
    LET api_key == env_var(env, Credential(provider)[1]) IN
    [called |-> TRUE, ok |-> TRUE,
     api_key |-> IF api_key.ok THEN api_key.val ELSE "",
     model |-> model, error |-> <<>>]

\* openai.rs:72-77, anthropic.rs:70-75, gemini.rs:67-72, with new
\* (openai.rs:63-69, anthropic.rs:61-67, gemini.rs:58-64)
from_env(provider, model, env) ==
    LET api_key == env_var(env, Credential(provider)[1]) IN
    IF api_key.ok
    THEN [called |-> TRUE, ok |-> TRUE, api_key |-> api_key.val,
          model |-> model, error |-> <<>>]
    ELSE [called |-> TRUE, ok |-> FALSE, api_key |-> "", model |-> "",
          error |-> <<Credential(provider)[1], " not set">>]

\* openai.rs:255-257, anthropic.rs:242-244, gemini.rs:250-252
model_name(c) == c.model

(***************************************************************************)
(* The request translation: build_messages of ai/openai.rs and             *)
(* ai/ollama.rs, build_messages_and_system of ai/anthropic.rs,             *)
(* build_request of ai/gemini.rs.  A text is the sequence of its pieces.   *)
(***************************************************************************)
\* client.rs:11-17
CompletionRequest(system_prompt, user_query, context_files, history) ==
    [system_prompt |-> system_prompt, user_query |-> user_query,
     context_files |-> context_files, history |-> history]

Message(role, content) == [role |-> role, content |-> content]

\* [String]::join(sep)
RECURSIVE join(_, _)
join(ss, sep) ==
    IF ss = <<>> THEN <<>>
    ELSE IF Len(ss) = 1 THEN Head(ss)
    ELSE Head(ss) \o <<sep>> \o join(Tail(ss), sep)

\* The code fence, three grave accents.
FENCE == "FENCE"

\* format!("File: {}\n[fence]\n{}\n[fence]", name, content)
format_file(file) ==
    <<"File: ", file[1], "\n", FENCE, "\n", file[2], "\n", FENCE>>

\* Mutation: the files are taken last to first.
context_section_rev(context_files) ==
    <<"Context:\n">>
    \o join([i \in 1..Len(context_files) |->
                format_file(context_files[Len(context_files) + 1 - i])], "\n\n")

\* openai.rs:90-101, anthropic.rs:84-91, gemini.rs:83-90, ollama.rs:62-73:
\* format!("Context:\n{}", context)
context_section(context_files) ==
    <<"Context:\n">>
    \o join([i \in 1..Len(context_files) |-> format_file(context_files[i])], "\n\n")

\* openai.rs:105-110, anthropic.rs:95-97, gemini.rs:94-96, ollama.rs:77-82:
\* format!("Recent shell history:\n{}", history)
history_section(history) ==
    <<"Recent shell history:\n">>
    \o join([i \in 1..Len(history) |-> <<history[i]>>], "\n")

\* openai.rs:80-120, build_messages
OpenAIClient_build_messages(req) ==
    <<Message("system", <<req.system_prompt>>)>>
    \o (IF req.context_files # <<>>
        THEN <<Message("system", context_section(req.context_files))>> ELSE <<>>)
    \o (IF req.history # <<>>
        THEN <<Message("system", history_section(req.history))>> ELSE <<>>)
    \o <<Message("user", <<req.user_query>>)>>

\* ollama.rs:52-92, build_messages
OllamaClient_build_messages(req) ==
    <<Message("system", <<req.system_prompt>>)>>
    \o (IF req.context_files # <<>>
        THEN <<Message("system", context_section(req.context_files))>> ELSE <<>>)
    \o (IF req.history # <<>>
        THEN <<Message("system", history_section(req.history))>> ELSE <<>>)
    \o <<Message("user", <<req.user_query>>)>>

\* anthropic.rs:78-108, build_messages_and_system
AnthropicClient_build_messages_and_system(req) ==
    LET system_parts ==
            << <<req.system_prompt>> >>
            \o (IF req.context_files # <<>>
                THEN <<context_section(req.context_files)>> ELSE <<>>)
            \o (IF req.history # <<>>
                THEN <<history_section(req.history)>> ELSE <<>>)
    IN [messages |-> <<Message("user", <<req.user_query>>)>>,
        system |-> join(system_parts, "\n\n")]

\* gemini.rs:75-117, build_request: each section is inserted at the front
\* of the user text, the history after the context files.
GeminiClient_build_request(req) ==
    LET with_context ==
            (IF req.context_files # <<>>
             THEN <<context_section(req.context_files)>> ELSE <<>>)
            \o << <<req.user_query>> >>
        user_text_parts ==
            (IF req.history # <<>>
             THEN <<history_section(req.history)>> ELSE <<>>)
            \o with_context
    IN [contents |-> <<[role |-> "user",
                        parts |-> <<[text |-> join(user_text_parts, "\n\n")]>>]>>,
        system_instruction |->
            Some([role |-> "user", parts |-> <<[text |-> <<req.system_prompt>>]>>])]

build_request_body(provider, req) ==
    CASE provider = "openai" -> OpenAIClient_build_messages(req)
      [] provider = "ollama" -> OllamaClient_build_messages(req)
      [] provider = "anthropic" -> AnthropicClient_build_messages_and_system(req)
      [] provider = "gemini" -> GeminiClient_build_request(req)

(***************************************************************************)
(* The session context: context/shell.rs, and the file the shell hooks     *)
(* write as tests/shell_integration_test.rs writes it.                     *)
(***************************************************************************)
\* shell.rs:43-46, get_context_path
ContextPath == "/tmp/aether/context.json"
\* shell_integration_test.rs:133-136, the file of the hooks
SessionContextPath == "/tmp/aether/session_context.json"

ContextPaths == {ContextPath, SessionContextPath}

\* A field of a JSON object: absent, null, or a value.
JValue(v) == [present |-> TRUE, null |-> FALSE, val |-> v]
JNull(v) == [present |-> TRUE, null |-> TRUE, val |-> v]
JAbsent(v) == [present |-> FALSE, null |-> FALSE, val |-> v]

NoFile == [exists |-> FALSE,
           last_command |-> JAbsent(""), last_exit_code |-> JAbsent(0),
           last_error |-> JAbsent(""), working_directory |-> JAbsent(""),
           shell_type |-> JAbsent(""), duration |-> JAbsent(0),
           timestamp |-> JAbsent(0)]

\* shell_integration_test.rs:136-143, the object a hook writes
HookJson(cmd, code, dir, shell) ==
    [exists |-> TRUE,
     last_command |-> JValue(cmd), last_exit_code |-> JValue(code),
     last_error |-> JAbsent(""), working_directory |-> JValue(dir),
     shell_type |-> JValue(shell), duration |-> JValue(1),
     timestamp |-> JValue(1234567890)]

\* serde Option<T>: an absent or null field is None.
from_option(field) ==
    IF field.present /\ ~field.null THEN Some(field.val) ELSE None

\* shell.rs:5-12 with serde_json::to_string_pretty (shell.rs:37)
to_string_pretty(ctx) ==
    [exists |-> TRUE,
     last_command |-> IF ctx.last_command = None THEN JNull("")
                      ELSE JValue(ctx.last_command[1]),
     last_exit_code |-> IF ctx.last_exit_code = None THEN JNull(0)
                        ELSE JValue(ctx.last_exit_code[1]),
     last_error |-> IF ctx.last_error = None THEN JNull("")
                    ELSE JValue(ctx.last_error[1]),
     working_directory |-> JValue(ctx.working_directory),
     shell_type |-> JValue(ctx.shell_type),
     duration |-> JAbsent(0), timestamp |-> JAbsent(0)]

\* shell.rs:5-12 with serde_json::from_str (shell.rs:24): the Option fields
\* may be absent, working_directory and shell_type may not, and fields the
\* struct does not have are ignored.
ShellContext_from_str(content) ==
    IF /\ content.working_directory.present /\ ~content.working_directory.null
       /\ content.shell_type.present /\ ~content.shell_type.null
    THEN ParseOk([last_command |-> from_option(content.last_command),
                  last_exit_code |-> from_option(content.last_exit_code),
                  last_error |-> from_option(content.last_error),
                  working_directory |-> content.working_directory.val,
                  shell_type |-> content.shell_type.val])
    ELSE ParseErr

Loaded(ok, ctx) == [called |-> TRUE, ok |-> ok, context |-> ctx]

\* shell.rs:16-26
ShellContext_load(fs) ==
    IF ~fs[ContextPath].exists THEN Loaded(TRUE, None)
    ELSE LET r == ShellContext_from_str(fs[ContextPath]) IN
         IF r.ok THEN Loaded(TRUE, Some(r.val)) ELSE Loaded(FALSE, None)

(***************************************************************************)
(* The interactive session: tui/state.rs, tui/mod.rs, tui/renderer.rs.     *)
(***************************************************************************)
\* Longest query typed in one session.
MaxInput == 2

\* scroll_position: u16 and animation_frame: u8
U16Max == 65535
U8Modulus == 256

InputChars == {"a", "c"}
KeyCodes == {"Enter", "Esc", "Tab", "Backspace", "Up", "Down"}

\* crossterm KeyEvent: its code (a named key, or Char with its character)
\* and whether the CONTROL modifier is held.
Key(code, char, control) == [code |-> code, char |-> char, control |-> control]
Keys ==
    { Key(k, "", m) : k \in KeyCodes, m \in BOOLEAN }
    \cup { Key("Char", c, m) : c \in InputChars, m \in BOOLEAN }

\* AppState::new: initial_buffer and cursor_pos are stored and nothing else
\* is derived from them.
AppState_new(initial_buffer, cursor_pos) ==
    [input_buffer |-> <<>>, mode |-> "Input", chat_history |-> <<>>,
     suggested_command |-> None, command_explanation |-> None,
     diff_content |-> None, scroll_position |-> 0,
     show_explanation |-> FALSE, should_process_query |-> FALSE,
     should_execute |-> FALSE, should_apply_patch |-> FALSE,
     animation_frame |-> 0,
     initial_buffer |-> initial_buffer, cursor_pos |-> cursor_pos]

\* AppState::add_message
add_message(st, role, content) ==
    [st EXCEPT !.chat_history = Append(@, [role |-> role, content |-> content])]

\* AppState::reset_for_new_query
reset_for_new_query(st) ==
    [st EXCEPT !.mode = "Input", !.suggested_command = None,
               !.command_explanation = None, !.diff_content = None,
               !.scroll_position = 0, !.show_explanation = FALSE,
               !.should_process_query = FALSE, !.should_execute = FALSE,
               !.should_apply_patch = FALSE]

\* u16::saturating_sub(1), u16::saturating_add(1), u8::wrapping_add(1)
saturating_sub(n) == IF n = 0 THEN 0 ELSE n - 1
saturating_add_wrapping(n) == (n + 1) % (U16Max + 1)
saturating_add(n) == IF n = U16Max THEN U16Max ELSE n + 1
wrapping_add(n) == (n + 1) % U8Modulus

Handled(st, exit) == [state |-> st, exit |-> exit]

IsCtrlC(key) == key.code = "Char" /\ key.char = "c" /\ key.control

\* tui/mod.rs:49-69, the arm of AppMode::Input
Input_arm_enter_always(st, key) ==
    IF IsCtrlC(key) THEN Handled(st, TRUE)
    ELSE IF key.code = "Esc" THEN Handled(st, TRUE)
    ELSE IF key.code = "Enter"
         THEN Handled([st EXCEPT !.mode = "Thinking",
                                 !.should_process_query = TRUE], FALSE)
    ELSE IF key.code = "Char"
         THEN Handled([st EXCEPT !.input_buffer = Append(@, key.char)], FALSE)
    ELSE IF key.code = "Backspace"
         THEN Handled([st EXCEPT !.input_buffer =
                           IF @ = <<>> THEN <<>> ELSE SubSeq(@, 1, Len(@) - 1)],
                      FALSE)
    ELSE Handled(st, FALSE)

Input_arm(st, key) ==
    IF IsCtrlC(key) THEN Handled(st, TRUE)
    ELSE IF key.code = "Esc" THEN Handled(st, TRUE)
    ELSE IF key.code = "Enter"
         THEN IF st.input_buffer # <<>>
              THEN Handled([st EXCEPT !.mode = "Thinking",
                                      !.should_process_query = TRUE], FALSE)
              ELSE Handled(st, FALSE)
    ELSE IF key.code = "Char"
         THEN Handled([st EXCEPT !.input_buffer = Append(@, key.char)], FALSE)
    ELSE IF key.code = "Backspace"
         THEN Handled([st EXCEPT !.input_buffer =
                           IF @ = <<>> THEN <<>> ELSE SubSeq(@, 1, Len(@) - 1)],
                      FALSE)
    ELSE Handled(st, FALSE)

\* tui/mod.rs:70-85, the arm of AppMode::Review
Review_arm_esc_executes(st, key) ==
    IF IsCtrlC(key) THEN Handled(st, TRUE)
    ELSE IF key.code \in {"Esc", "Enter"}
         THEN Handled([st EXCEPT !.should_execute = TRUE], TRUE)
    ELSE IF key.code = "Tab"
         THEN Handled([st EXCEPT !.show_explanation = ~@], FALSE)
    ELSE Handled(st, FALSE)

Review_arm_tab_shows(st, key) ==
    IF IsCtrlC(key) THEN Handled(st, TRUE)
    ELSE IF key.code = "Esc" THEN Handled(st, TRUE)
    ELSE IF key.code = "Enter"
         THEN Handled([st EXCEPT !.should_execute = TRUE], TRUE)
    ELSE IF key.code = "Tab"
         THEN Handled([st EXCEPT !.show_explanation = TRUE], FALSE)
    ELSE Handled(st, FALSE)

Review_arm_esc_resets(st, key) ==
    IF IsCtrlC(key) THEN Handled(st, TRUE)
    ELSE IF key.code = "Esc"
         THEN Handled([st EXCEPT !.mode = "Input", !.suggested_command = None,
                                 !.command_explanation = None], FALSE)
    ELSE IF key.code = "Enter"
         THEN Handled([st EXCEPT !.should_execute = TRUE], TRUE)
    ELSE IF key.code = "Tab"
         THEN Handled([st EXCEPT !.show_explanation = ~@], FALSE)
    ELSE Handled(st, FALSE)

Review_arm(st, key) ==
    IF IsCtrlC(key) THEN Handled(st, TRUE)
    ELSE IF key.code = "Esc" THEN Handled(st, TRUE)
    ELSE IF key.code = "Enter"
         THEN Handled([st EXCEPT !.should_execute = TRUE], TRUE)
    ELSE IF key.code = "Tab"
         THEN Handled([st EXCEPT !.show_explanation = ~@], FALSE)
    ELSE Handled(st, FALSE)

\* tui/mod.rs:86-91, the arm of AppMode::Thinking
Thinking_arm_esc_exits(st, key) ==
    IF IsCtrlC(key) \/ key.code = "Esc" THEN Handled(st, TRUE) ELSE Handled(st, FALSE)

Thinking_arm(st, key) ==
    IF IsCtrlC(key) THEN Handled(st, TRUE) ELSE Handled(st, FALSE)

\* tui/mod.rs:92-110, the arm of AppMode::Diff
Diff_arm(st, key) ==
    IF IsCtrlC(key) THEN Handled(st, TRUE)
    ELSE IF key.code = "Esc" THEN Handled(st, TRUE)
    ELSE IF key.code = "Enter"
         THEN Handled([st EXCEPT !.should_apply_patch = TRUE], TRUE)
    ELSE IF key.code = "Up"
         THEN Handled([st EXCEPT !.scroll_position = saturating_sub(@)], FALSE)
    ELSE IF key.code = "Down"
         THEN Handled([st EXCEPT !.scroll_position = saturating_add(@)], FALSE)
    ELSE Handled(st, FALSE)

\* tui/mod.rs handle_key_event: the state after the key and whether exit
\* is requested.
handle_key_event(st, key) ==
    CASE st.mode = "Input" -> Input_arm(st, key)
      [] st.mode = "Review" -> Review_arm(st, key)
      [] st.mode = "Thinking" -> Thinking_arm(st, key)
      [] st.mode = "Diff" -> Diff_arm(st, key)

process_dummy_query_no_explanation(st) ==
    LET dummy_command == <<"echo 'You asked: ">> \o st.input_buffer \o <<"'">>
        reviewed == [st EXCEPT !.suggested_command = Some(dummy_command),
                               !.mode = "Review"]
    IN add_message(add_message(reviewed, "user", st.input_buffer),
                   "assistant", dummy_command)

\* renderer.rs process_dummy_query: the answer is composed from the query
\* in place; no provider is called and nothing here can fail.
process_dummy_query(st) ==
    LET dummy_command == <<"echo 'You asked: ">> \o st.input_buffer \o <<"'">>
        dummy_explanation ==
            <<"This is a dummy command that echoes your query: '">>
            \o st.input_buffer \o <<"'">>
        reviewed == [st EXCEPT !.suggested_command = Some(dummy_command),
                               !.command_explanation = Some(dummy_explanation),
                               !.mode = "Review"]
    IN add_message(add_message(reviewed, "user", st.input_buffer),
                   "assistant", dummy_command)

(***************************************************************************)
(* State.  Each specification runs one program on it and leaves the rest  *)
(* as constructed: Brain::process_query pulling one provider stream        *)
(* (Spec), Brain::process_error making one round trip (SpecFix), the       *)
(* interactive session's loop run_app (SpecTui), handle_key_event called   *)
(* key after key (SpecKeys), Brain::analyze_command (SpecExec) and the     *)
(* test double MockAIProvider (SpecMock).                                  *)
(***************************************************************************)
VARIABLES
    ai_provider,   \* Brain.ai_provider: which adapter serves the request
    frames,        \* the frames the provider sends as the response body
    pc,            \* "idle", "streaming", "done" or "failed"
    chunk_start,   \* symbols received before the latest chunk
    received,      \* symbols of the body received so far
    item,          \* the latest item the stream yielded
    response,      \* process_query's accumulator `response`
    result,        \* what process_query / process_error returned
    http,          \* the round trip made for the request so far
    state,         \* run_lens_mode's `state: AppState`
    loop_pc,       \* run_app: "draw", "poll", "update", "exited" or "error"
    terminal,      \* the modes of the frames terminal.draw has drawn
    before,        \* the AppState handle_key_event was last called on
    last_key,      \* the key event it was called with
    exit_requested, \* what that call returned
    command,       \* the command string given to Brain::analyze_command
    analysis,      \* the CommandAnalysis it returned
    mock,          \* a MockAIProvider
    twin,          \* a second MockAIProvider, constructed by the same calls
    custom,        \* the with_response calls made on them, in order
    query,         \* req.user_query of the latest stream_completion
    answer,        \* what mock.get_response returned for it
    twin_answer,   \* what twin.get_response returned for it
    pieces,        \* the items of the stream mock.stream_completion built
    had_error,     \* a draining consumer got an error item for a chunk
    requests,      \* the requests in flight on the shared provider `mock`
    invocation,    \* main: the parsed command line (Cli) and the standard input
    outcome,       \* main: the mode it ran, what it printed, its exit status
    files,         \* the files under /tmp/aether, by path
    loaded,        \* what ShellContext::load returned
    environment,   \* the process environment, by variable name
    model_arg,     \* the model identifier handed to from_env
    client,        \* what from_env returned
    request,       \* the CompletionRequest handed to an adapter
    translated     \* the adapter and the request body it built

vars == <<ai_provider, frames, pc, chunk_start, received, item, response, result,
          http, state, loop_pc, terminal, before, last_key, exit_requested,
          command, analysis, mock, twin, custom, query, answer, twin_answer,
          pieces, had_error, requests, invocation, outcome, files, loaded,
         environment, model_arg, client, request, translated>>

brain_vars == <<ai_provider, frames, pc, chunk_start, received, item, response,
                result, http>>
tui_vars == <<state, loop_pc, terminal>>
key_vars == <<before, last_key, exit_requested>>
exec_vars == <<command, analysis>>
mock_vars == <<mock, twin, custom, query, answer, twin_answer, pieces>>
drain_vars == <<had_error>>
conc_vars == <<requests>>
cli_vars == <<invocation, outcome>>
shell_vars == <<files, loaded>>
env_vars == <<environment, model_arg, client>>
req_vars == <<request, translated>>
not_brain == <<tui_vars, key_vars, exec_vars, mock_vars, drain_vars, conc_vars,
               cli_vars, shell_vars, env_vars, req_vars>>
not_tui == <<brain_vars, key_vars, exec_vars, mock_vars, drain_vars, conc_vars,
             cli_vars, shell_vars, env_vars, req_vars>>

wire == BytesOf(frames)
chunk == SubSeq(wire, chunk_start + 1, received)

\* No session is running.
NoSession ==
    /\ state = AppState_new(<<>>, 0)
    /\ loop_pc = "draw"
    /\ terminal = {}

\* handle_key_event has not been called on its own.
NoKey == Key("None", "", FALSE)
NoKeyEvent ==
    /\ before = state
    /\ last_key = NoKey
    /\ exit_requested = FALSE

\* No command has been analysed.
NoAnalysis == [command |-> <<>>, is_destructive |-> FALSE, description |-> "none"]
NoCommand ==
    /\ command = <<>>
    /\ analysis = NoAnalysis

\* The test double has not been asked anything.
NoQuery == <<"none">>
NoAnswer == <<"none">>
NotAsked ==
    /\ custom = <<>>
    /\ query = NoQuery
    /\ answer = NoAnswer
    /\ twin_answer = NoAnswer
    /\ pieces = <<>>
NoMock ==
    /\ mock = MockAIProvider_new(0)
    /\ twin = MockAIProvider_new(0)
    /\ NotAsked

\* No consumer is draining a stream.
NoDrain == had_error = FALSE

\* No request has been made on the shared provider.
NoRequest == [pc |-> "idle", query |-> NoQuery, stream |-> <<>>, got |-> <<>>]
NoRequests == requests = [i \in Requests |-> NoRequest]

\* main has not run.
NotRun == [ran |-> "none", stdout |-> "", stderr |-> "", status |-> 0]
NoInvocation ==
    /\ invocation = Cli(None, "lens", "")
    /\ outcome = NotRun

\* Nothing is written under /tmp/aether and load has not been called.
NotLoaded == [called |-> FALSE, ok |-> FALSE, context |-> None]
NoShellContext ==
    /\ files = [path \in ContextPaths |-> NoFile]
    /\ loaded = NotLoaded

\* No adapter has been constructed from the environment.
NoClient == [called |-> FALSE, ok |-> FALSE, api_key |-> "", model |-> "",
             error |-> <<>>]
NoEnvironment ==
    /\ environment = [name \in EnvNames |-> NotPresent]
    /\ model_arg = ""
    /\ client = NoClient

\* No request has been handed to an adapter.
NotTranslated == [done |-> FALSE, provider |-> "", body |-> <<>>]
NoTranslation ==
    /\ request = CompletionRequest("", "", <<>>, <<>>)
    /\ translated = NotTranslated

Init ==
    /\ ai_provider \in Providers
    /\ frames \in Bodies(ai_provider)
    /\ pc = "idle"
    /\ chunk_start = 0
    /\ received = 0
    /\ item = NoItem
    /\ response = <<>>
    /\ result = NoItem
    /\ http = NoExchange
    /\ NoSession
    /\ NoKeyEvent
    /\ NoCommand
    /\ NoMock
    /\ NoDrain
    /\ NoRequests
    /\ NoInvocation
    /\ NoShellContext
    /\ NoEnvironment
    /\ NoTranslation

\* Mutation: the handle is returned before any request is made.
stream_completion_ok_lazy ==
    /\ pc = "idle"
    /\ pc' = "streaming"
    /\ UNCHANGED <<ai_provider, frames, chunk_start, received, item, response,
                   result, http>>
    /\ UNCHANGED not_brain

\* brain.rs:52, stream_completion(req).await succeeded: stream_impl awaited
\* send(), found a success status, and returned the stream over the body.
stream_completion_ok ==
    /\ pc = "idle"
    /\ \E s \in Statuses :
         /\ is_success(s)
         /\ http' = RoundTrip(TRUE, s, <<>>, FALSE)
    /\ pc' = "streaming"
    /\ UNCHANGED <<ai_provider, frames, chunk_start, received, item, response, result>>
    /\ UNCHANGED not_brain

\* brain.rs:52, stream_completion(req).await? failed: send() did not
\* connect, or the status was not a success and stream_impl bailed.
stream_completion_err ==
    /\ pc = "idle"
    /\ \/ /\ http' = RoundTrip(FALSE, 0, <<>>, FALSE)
          /\ result' = StreamConnectError(ai_provider)
       \/ \E s \in Statuses, b \in ErrorBodies, r \in BOOLEAN :
            /\ ~is_success(s)
            /\ http' = RoundTrip(TRUE, s, b, r)
            /\ result' = StreamApiError(ai_provider, RoundTrip(TRUE, s, b, r))
    /\ pc' = "failed"
    /\ UNCHANGED <<ai_provider, frames, chunk_start, received, item, response>>
    /\ UNCHANGED not_brain

\* Mutation: an error item is dropped and the loop goes on.
process_query_next_swallow ==
    /\ pc = "streaming"
    /\ received < Len(wire)
    /\ \E n \in 1..(Len(wire) - received) :
         LET it == stream_item(ai_provider, SubSeq(wire, received + 1, received + n))
         IN /\ chunk_start' = received
            /\ received' = received + n
            /\ item' = it
            /\ response' = response \o it.text
            /\ UNCHANGED <<pc, result>>
    /\ UNCHANGED <<ai_provider, frames, http>>
    /\ UNCHANGED not_brain

\* brain.rs:55-57, one turn of `while let Some(chunk) = stream.next().await`:
\* the next network chunk arrives, the adapter's closure maps it to an item,
\* and `response.push_str(&chunk?)` appends it or returns its error.
process_query_next ==
    /\ pc = "streaming"
    /\ received < Len(wire)
    /\ \E n \in 1..(Len(wire) - received) :
         LET it == stream_item(ai_provider, SubSeq(wire, received + 1, received + n))
         IN /\ chunk_start' = received
            /\ received' = received + n
            /\ item' = it
            /\ IF it.ok
               THEN /\ response' = response \o it.text
                    /\ UNCHANGED <<pc, result>>
               ELSE /\ pc' = "failed"
                    /\ result' = it
                    /\ UNCHANGED response
    /\ UNCHANGED <<ai_provider, frames, http>>
    /\ UNCHANGED not_brain

\* The byte stream yields a transport error: map_err makes it the item
\* "Stream read error", which `chunk?` returns.
process_query_read_error ==
    /\ pc = "streaming"
    /\ chunk_start' = received
    /\ item' = ErrItem("Stream read error")
    /\ pc' = "failed"
    /\ result' = ErrItem("Stream read error")
    /\ UNCHANGED <<ai_provider, frames, received, response, http>>
    /\ UNCHANGED not_brain

\* Mutation: the accumulated text is returned as it is.
process_query_end_untrimmed ==
    /\ pc = "streaming"
    /\ received = Len(wire)
    /\ pc' = "done"
    /\ result' = OkItem(response)
    /\ UNCHANGED <<ai_provider, frames, chunk_start, received, item, response, http>>
    /\ UNCHANGED not_brain

\* brain.rs:55,59: the connection closed, stream.next() is None, and
\* process_query returns Ok(response.trim()).
process_query_end ==
    /\ pc = "streaming"
    /\ received = Len(wire)
    /\ pc' = "done"
    /\ result' = OkItem(Trim(response))
    /\ UNCHANGED <<ai_provider, frames, chunk_start, received, item, response, http>>
    /\ UNCHANGED not_brain

Next ==
    \/ stream_completion_ok
    \/ stream_completion_err
    \/ process_query_next
    \/ process_query_read_error
    \/ process_query_end

Spec == Init /\ [][Next]_vars

TypeOK ==
    /\ ai_provider \in Providers
    /\ pc \in {"idle", "streaming", "done", "failed"}
    /\ 0 <= chunk_start /\ chunk_start <= received /\ received <= Len(wire)
    /\ item.ok \in BOOLEAN

(***************************************************************************)
(* Brain::process_error: one get_fix_suggestion round trip.                *)
(***************************************************************************)
\* The round trips the network and the provider can answer a request with.
RoundTrips(provider) ==
    { RoundTrip(FALSE, 0, <<>>, FALSE) }
    \cup { RoundTrip(TRUE, s, b, r) :
             s \in { x \in Statuses : ~is_success(x) }, b \in ErrorBodies,
             r \in BOOLEAN }
    \cup { RoundTrip(TRUE, s, fr.bytes, r) :
             s \in { x \in Statuses : is_success(x) },
             fr \in FixResponsesOf(provider), r \in BOOLEAN }

InitFix ==
    /\ ai_provider \in Providers
    /\ frames = <<>>
    /\ pc = "idle"
    /\ chunk_start = 0
    /\ received = 0
    /\ item = NoItem
    /\ response = <<>>
    /\ result = NoItem
    /\ http = NoExchange
    /\ NoSession
    /\ NoKeyEvent
    /\ NoCommand
    /\ NoMock
    /\ NoDrain
    /\ NoRequests
    /\ NoInvocation
    /\ NoShellContext
    /\ NoEnvironment
    /\ NoTranslation

\* brain.rs:63-65: process_error returns what get_fix_suggestion returns.
process_error ==
    /\ pc = "idle"
    /\ \E rt \in RoundTrips(ai_provider) :
         /\ http' = rt
         /\ result' = get_fix_suggestion(ai_provider, rt)
         /\ pc' = IF get_fix_suggestion(ai_provider, rt).ok THEN "done" ELSE "failed"
    /\ UNCHANGED <<ai_provider, frames, chunk_start, received, item, response>>
    /\ UNCHANGED not_brain

NextFix == process_error

SpecFix == InitFix /\ [][NextFix]_vars

(***************************************************************************)
(* run_app: the loop of the interactive session.  One turn draws, polls    *)
(* for a key for at most 100 ms, then updates the animation frame and      *)
(* processes a pending query.                                              *)
(***************************************************************************)
InitTui ==
    /\ ai_provider = "openai"
    /\ frames = <<>>
    /\ pc = "idle"
    /\ chunk_start = 0
    /\ received = 0
    /\ item = NoItem
    /\ response = <<>>
    /\ result = NoItem
    /\ http = NoExchange
    /\ \E initial_buffer \in {<<>>, <<"a">>} : state = AppState_new(initial_buffer, 0)
    /\ loop_pc = "draw"
    /\ terminal = {}
    /\ NoKeyEvent
    /\ NoCommand
    /\ NoMock
    /\ NoDrain
    /\ NoRequests
    /\ NoInvocation
    /\ NoShellContext
    /\ NoEnvironment
    /\ NoTranslation

\* renderer.rs:44, terminal.draw(|f| render_ui(f, state))
run_app_draw ==
    /\ loop_pc = "draw"
    /\ terminal' = terminal \cup {state.mode}
    /\ loop_pc' = "poll"
    /\ UNCHANGED state
    /\ UNCHANGED not_tui

\* renderer.rs:47-53, poll found a key event: handle_key_event, and break
\* when it asks to exit.
run_app_key ==
    /\ loop_pc = "poll"
    /\ \E key \in Keys :
         /\ (state.mode = "Input" /\ key.code = "Char" /\ ~IsCtrlC(key))
                => Len(state.input_buffer) < MaxInput
         /\ state' = handle_key_event(state, key).state
         /\ loop_pc' = IF handle_key_event(state, key).exit THEN "exited" ELSE "update"
    /\ UNCHANGED terminal
    /\ UNCHANGED not_tui

\* renderer.rs:47-53, poll timed out, or the event was not a key.
run_app_no_key ==
    /\ loop_pc = "poll"
    /\ loop_pc' = "update"
    /\ UNCHANGED <<state, terminal>>
    /\ UNCHANGED not_tui

\* renderer.rs:55-64: advance the animation frame, then process the query
\* in this same turn when should_process_query is set.
run_app_update ==
    /\ loop_pc = "update"
    /\ LET animated == [state EXCEPT !.animation_frame = wrapping_add(@)] IN
       state' = IF animated.should_process_query
                THEN process_dummy_query([animated EXCEPT !.should_process_query = FALSE])
                ELSE animated
    /\ loop_pc' = "draw"
    /\ UNCHANGED terminal
    /\ UNCHANGED not_tui

\* renderer.rs:44,47,48: draw, poll or read fails and `?` returns the error.
run_app_io_error ==
    /\ loop_pc \in {"draw", "poll"}
    /\ loop_pc' = "error"
    /\ UNCHANGED <<state, terminal>>
    /\ UNCHANGED not_tui

NextTui ==
    \/ run_app_draw
    \/ run_app_key
    \/ run_app_no_key
    \/ run_app_update
    \/ run_app_io_error

SpecTui == InitTui /\ [][NextTui]_vars

(***************************************************************************)
(* SpecKeys: handle_key_event, the public entry point of the tui module,   *)
(* applied key after key to an AppState of any mode.  run_app handles a    *)
(* key only from its poll step, where should_process_query is false again  *)
(* (renderer.rs:58-63), and handles none after an exit was requested.      *)
(***************************************************************************)
\* How far from either end of the u16 range a session scrolls.
MaxScroll == 2

Modes == {"Input", "Thinking", "Review", "Diff"}

InScrollWindow(n) == n <= MaxScroll \/ n >= U16Max - MaxScroll

\* renderer.rs:29-33, what run_lens_mode prints for the shell on exit
printed_command(st) ==
    IF st.should_execute /\ st.suggested_command # None
    THEN st.suggested_command
    ELSE None

InitKeys ==
    /\ ai_provider = "openai"
    /\ frames = <<>>
    /\ pc = "idle"
    /\ chunk_start = 0
    /\ received = 0
    /\ item = NoItem
    /\ response = <<>>
    /\ result = NoItem
    /\ http = NoExchange
    /\ \E mode \in Modes, input_buffer \in {<<>>, <<"a">>},
          scroll_position \in {0, U16Max}, show_explanation \in BOOLEAN,
          suggested_command \in {None, Some(<<"a">>)} :
         state = [AppState_new(<<>>, 0) EXCEPT
                    !.mode = mode,
                    !.input_buffer = input_buffer,
                    !.scroll_position = scroll_position,
                    !.show_explanation = show_explanation,
                    !.suggested_command = suggested_command]
    /\ loop_pc = "poll"
    /\ terminal = {}
    /\ NoKeyEvent
    /\ NoCommand
    /\ NoMock
    /\ NoDrain
    /\ NoRequests
    /\ NoInvocation
    /\ NoShellContext
    /\ NoEnvironment
    /\ NoTranslation

\* renderer.rs:49-52, one call of handle_key_event
key_event ==
    /\ ~exit_requested
    /\ ~state.should_process_query
    /\ \E key \in Keys :
         /\ (state.mode = "Input" /\ key.code = "Char" /\ ~IsCtrlC(key))
                => Len(state.input_buffer) < MaxInput
         /\ InScrollWindow(handle_key_event(state, key).state.scroll_position)
         /\ before' = state
         /\ last_key' = key
         /\ state' = handle_key_event(state, key).state
         /\ exit_requested' = handle_key_event(state, key).exit
    /\ UNCHANGED <<loop_pc, terminal>>
    /\ UNCHANGED <<brain_vars, exec_vars, mock_vars, drain_vars, conc_vars, cli_vars,
                   shell_vars, env_vars, req_vars>>

NextKeys == key_event

SpecKeys == InitKeys /\ [][NextKeys]_vars

(***************************************************************************)
(* SpecExec: Brain::analyze_command classifies one command.                *)
(***************************************************************************)
\* Commands that hold no entry of the danger list in any letter case.
SafeCommands ==
    { Chars("ls -la"), Chars("git status"), Chars("echo 'hello world'"),
      Chars("rm -r build"), Chars("chmod 644 notes"), Chars("cat /dev/null"),
      Chars("") }

\* Every entry of the danger list as written, in upper case, in lower case,
\* and inside a longer command.
DangerousCommands ==
    UNION { { dangerous_patterns[i],
              to_uppercase(dangerous_patterns[i]),
              to_lowercase(dangerous_patterns[i]),
              Chars("sudo ") \o dangerous_patterns[i] \o Chars(" /x"),
              Chars("Sudo ") \o to_uppercase(dangerous_patterns[i]) \o Chars(" x;") }
            : i \in 1..Len(dangerous_patterns) }

Commands == SafeCommands \cup DangerousCommands

InitExec ==
    /\ ai_provider = "openai"
    /\ frames = <<>>
    /\ pc = "idle"
    /\ chunk_start = 0
    /\ received = 0
    /\ item = NoItem
    /\ response = <<>>
    /\ result = NoItem
    /\ http = NoExchange
    /\ NoSession
    /\ NoKeyEvent
    /\ command \in Commands
    /\ analysis = NoAnalysis
    /\ NoMock
    /\ NoDrain
    /\ NoRequests
    /\ NoInvocation
    /\ NoShellContext
    /\ NoEnvironment
    /\ NoTranslation

\* brain.rs:68-74
analyze ==
    /\ analysis = NoAnalysis
    /\ analysis' = Brain_analyze_command(command)
    /\ UNCHANGED command
    /\ UNCHANGED <<brain_vars, tui_vars, key_vars, mock_vars, drain_vars, conc_vars,
                   cli_vars, shell_vars, env_vars, req_vars>>

NextExec == analyze

SpecExec == InitExec /\ [][NextExec]_vars

(***************************************************************************)
(* SpecMock: two MockAIProvider instances are constructed by the same      *)
(* calls, then queries are streamed from them.                             *)
(***************************************************************************)
Hashers == 0..(Len(PredefinedResponses) + MaxCustom - 1)

CustomQueries == { Chars("test query"), Chars("Test Query"), Chars("List Files"),
                   Chars("git") }
CustomResponses == { Chars("custom response"), Chars("") }
CustomDefaults == { Chars("fallback") }

Queries ==
    { Chars("list files"), Chars("LIST FILES"), Chars("List Files"),
      Chars("how do i list files?"), Chars("undo last git commit"),
      Chars("show git status"), Chars("list files and show git status"),
      Chars("git"), Chars("find"), Chars(""), Chars("undo commit"),
      Chars("unknown query xyz"), Chars("test query"), Chars("Test Query") }

InitMock ==
    /\ ai_provider = "openai"
    /\ frames = <<>>
    /\ pc = "idle"
    /\ chunk_start = 0
    /\ received = 0
    /\ item = NoItem
    /\ response = <<>>
    /\ result = NoItem
    /\ http = NoExchange
    /\ NoSession
    /\ NoKeyEvent
    /\ NoCommand
    /\ \E h \in Hashers : mock = MockAIProvider_new(h)
    /\ \E h \in Hashers : twin = MockAIProvider_new(h)
    /\ NotAsked
    /\ NoDrain
    /\ NoRequests
    /\ NoInvocation
    /\ NoShellContext
    /\ NoEnvironment
    /\ NoTranslation

\* mock.rs:56-60, on both providers
mock_with_response ==
    /\ query = NoQuery
    /\ Len(custom) < MaxCustom
    /\ \E q \in CustomQueries, r \in CustomResponses :
         /\ mock' = with_response(mock, q, r)
         /\ twin' = with_response(twin, q, r)
         /\ custom' = Append(custom, [query |-> q, response |-> r])
    /\ UNCHANGED <<query, answer, twin_answer, pieces>>
    /\ UNCHANGED <<brain_vars, tui_vars, key_vars, exec_vars, drain_vars, conc_vars,
                   cli_vars, shell_vars, env_vars, req_vars>>

\* mock.rs:63-66, on both providers
mock_with_default ==
    /\ query = NoQuery
    /\ mock.default_response = MockAIProvider_new(0).default_response
    /\ \E r \in CustomDefaults :
         /\ mock' = with_default(mock, r)
         /\ twin' = with_default(twin, r)
    /\ UNCHANGED <<custom, query, answer, twin_answer, pieces>>
    /\ UNCHANGED <<brain_vars, tui_vars, key_vars, exec_vars, drain_vars, conc_vars,
                   cli_vars, shell_vars, env_vars, req_vars>>

\* mock.rs:97-113, stream_completion on mock; get_response on twin.  One
\* request per run: get_response takes &self and changes nothing, so
\* requests do not influence each other.
mock_stream_completion ==
    /\ query = NoQuery
    /\ \E q \in Queries :
         LET resp == get_response(mock, q) IN
         /\ query' = q
         /\ answer' = resp
         /\ twin_answer' = get_response(twin, q)
         /\ pieces' = stream_iter(chunks(resp))
    /\ UNCHANGED <<mock, twin, custom>>
    /\ UNCHANGED <<brain_vars, tui_vars, key_vars, exec_vars, drain_vars, conc_vars,
                   cli_vars, shell_vars, env_vars, req_vars>>

NextMock ==
    \/ mock_with_response
    \/ mock_with_default
    \/ mock_stream_completion

SpecMock == InitMock /\ [][NextMock]_vars

(***************************************************************************)
(* SpecDrain: a consumer that pulls a provider stream to its end and keeps *)
(* the text of the Ok items only (tests/ai_connectivity.rs:118-122 for     *)
(* Ollama, 258-262 for OpenAI).                                            *)
(***************************************************************************)
DrainedProviders == {"openai", "ollama"}

InitDrain ==
    /\ Init
    /\ ai_provider \in DrainedProviders

\* Mutation: once an item was an error, every later item is that error.
drain_next_fused ==
    /\ pc = "streaming"
    /\ received < Len(wire)
    /\ \E n \in 1..(Len(wire) - received) :
         LET bytes == SubSeq(wire, received + 1, received + n)
             it == IF had_error THEN item
                   ELSE stream_item(ai_provider, bytes)
         IN /\ chunk_start' = received
            /\ received' = received + n
            /\ item' = it
            /\ response' = IF it.ok THEN response \o it.text ELSE response
            /\ had_error' = (had_error \/ ~it.ok)
    /\ UNCHANGED <<ai_provider, frames, pc, result, http>>
    /\ UNCHANGED <<tui_vars, key_vars, exec_vars, mock_vars, conc_vars, cli_vars,
                   shell_vars, env_vars, req_vars>>

\* One turn of `while let Some(result) = stream.next().await`: the next
\* network chunk arrives, the adapter's closure maps it to an item, and
\* `if let Ok(token) = result { full_response.push_str(&token) }`.
drain_next ==
    /\ pc = "streaming"
    /\ received < Len(wire)
    /\ \E n \in 1..(Len(wire) - received) :
         LET bytes == SubSeq(wire, received + 1, received + n)
             it == stream_item(ai_provider, bytes)
         IN /\ chunk_start' = received
            /\ received' = received + n
            /\ item' = it
            /\ response' = IF it.ok THEN response \o it.text ELSE response
            /\ had_error' = (had_error \/ ~it.ok)
    /\ UNCHANGED <<ai_provider, frames, pc, result, http>>
    /\ UNCHANGED <<tui_vars, key_vars, exec_vars, mock_vars, conc_vars, cli_vars,
                   shell_vars, env_vars, req_vars>>

\* The connection closed and stream.next() is None.
drain_end ==
    /\ pc = "streaming"
    /\ received = Len(wire)
    /\ pc' = "done"
    /\ result' = OkItem(response)
    /\ UNCHANGED <<ai_provider, frames, chunk_start, received, item, response, http>>
    /\ UNCHANGED not_brain

NextDrain ==
    \/ stream_completion_ok
    \/ stream_completion_err
    \/ drain_next
    \/ drain_end

SpecDrain == InitDrain /\ [][NextDrain]_vars

(***************************************************************************)
(* SpecConc: one provider behind Brain's Arc<dyn AIProvider>, and several  *)
(* requests on it whose steps interleave.  stream_completion takes &self   *)
(* and returns a stream the caller owns.                                   *)
(***************************************************************************)
ConcQueries ==
    { Chars("list files"), Chars("show git status"), Chars("git"), Chars("zzz") }

InitConc ==
    /\ ai_provider = "openai"
    /\ frames = <<>>
    /\ pc = "idle"
    /\ chunk_start = 0
    /\ received = 0
    /\ item = NoItem
    /\ response = <<>>
    /\ result = NoItem
    /\ http = NoExchange
    /\ NoSession
    /\ NoKeyEvent
    /\ NoCommand
    /\ \E h \in Hashers : mock = MockAIProvider_new(h)
    /\ twin = mock
    /\ NotAsked
    /\ NoDrain
    /\ NoRequests
    /\ NoInvocation
    /\ NoShellContext
    /\ NoEnvironment
    /\ NoTranslation

conc_rest == <<brain_vars, tui_vars, key_vars, exec_vars, mock_vars, drain_vars,
               cli_vars, shell_vars, env_vars, req_vars>>

\* brain.rs:52 with mock.rs:97-113: a request calls stream_completion and
\* gets its own stream.
conc_stream_completion ==
    /\ \E i \in Requests, q \in ConcQueries :
         /\ requests[i].pc = "idle"
         /\ requests' = [requests EXCEPT ![i] =
                [pc |-> "streaming", query |-> q,
                 stream |-> stream_iter(chunks(get_response(mock, q))),
                 got |-> <<>>]]
    /\ UNCHANGED conc_rest

\* Mutation: every request pulls from the stream of the request made first.
conc_next_shared ==
    /\ \E i \in Requests :
         LET j == CHOOSE k \in Requests :
                     /\ requests[k].pc # "idle"
                     /\ \A l \in Requests : requests[l].pc # "idle" => k <= l
         IN /\ requests[i].pc = "streaming"
            /\ requests[j].stream # <<>>
            /\ requests' = [requests EXCEPT
                   ![i].got = Append(@, Head(requests[j].stream).text),
                   ![j].stream = Tail(@)]
    /\ UNCHANGED conc_rest

\* brain.rs:55-57, one turn of `while let Some(chunk) = stream.next().await`
\* of one request.
conc_next ==
    /\ \E i \in Requests :
         /\ requests[i].pc = "streaming"
         /\ requests[i].stream # <<>>
         /\ requests' = [requests EXCEPT
                ![i].got = Append(@, Head(requests[i].stream).text),
                ![i].stream = Tail(@)]
    /\ UNCHANGED conc_rest

\* brain.rs:55,59: the request's stream is exhausted.
conc_end ==
    /\ \E i \in Requests :
         /\ requests[i].pc = "streaming"
         /\ requests[i].stream = <<>>
         /\ requests' = [requests EXCEPT ![i].pc = "done"]
    /\ UNCHANGED conc_rest

NextConc ==
    \/ conc_stream_completion
    \/ conc_next
    \/ conc_end

SpecConc == InitConc /\ [][NextConc]_vars

(***************************************************************************)
(* SpecCli: one run of the binary.                                         *)
(***************************************************************************)
Subcommands ==
    { None, Inject("zsh"), Inject("bash"), Inject("fish"),
      Subcommand("Lens"), Subcommand("Pipe"), Subcommand("Sentinel") }

\* Values of --mode; "lens" is the default when the option is absent.
ModeOptions == {"lens", "pipe", "sentinel", "Lens", ""}

StandardInputs == {"", "Hello, World!"}

InitCli ==
    /\ ai_provider = "openai"
    /\ frames = <<>>
    /\ pc = "idle"
    /\ chunk_start = 0
    /\ received = 0
    /\ item = NoItem
    /\ response = <<>>
    /\ result = NoItem
    /\ http = NoExchange
    /\ NoSession
    /\ NoKeyEvent
    /\ NoCommand
    /\ NoMock
    /\ NoDrain
    /\ NoRequests
    /\ \E cmd \in Subcommands, mode \in ModeOptions, stdin \in StandardInputs :
         invocation = Cli(cmd, mode, stdin)
    /\ outcome = NotRun
    /\ NoShellContext
    /\ NoEnvironment
    /\ NoTranslation

\* main.rs:48-77
run_main ==
    /\ outcome = NotRun
    /\ outcome' \in main(invocation)
    /\ UNCHANGED invocation
    /\ UNCHANGED <<brain_vars, tui_vars, key_vars, exec_vars, mock_vars, drain_vars,
                   conc_vars, shell_vars, env_vars, req_vars>>

NextCli == run_main

SpecCli == InitCli /\ [][NextCli]_vars

(***************************************************************************)
(* SpecShell: the shell hooks and ShellContext::save write under           *)
(* /tmp/aether, then ShellContext::load is called.                         *)
(***************************************************************************)
LastCommands == {"echo test", "grep nonexistent file.txt"}
ExitCodes == {0, 1}
ShellTypes == {"zsh", "bash"}

SavedContexts ==
    { [last_command |-> c, last_exit_code |-> Some(1), last_error |-> e,
       working_directory |-> "/home", shell_type |-> sh] :
        c \in {None, Some("false")}, e \in {None, Some("not found")},
        sh \in ShellTypes }

InitShell ==
    /\ ai_provider = "openai"
    /\ frames = <<>>
    /\ pc = "idle"
    /\ chunk_start = 0
    /\ received = 0
    /\ item = NoItem
    /\ response = <<>>
    /\ result = NoItem
    /\ http = NoExchange
    /\ NoSession
    /\ NoKeyEvent
    /\ NoCommand
    /\ NoMock
    /\ NoDrain
    /\ NoRequests
    /\ NoInvocation
    /\ NoShellContext
    /\ NoEnvironment
    /\ NoTranslation

shell_rest == <<brain_vars, tui_vars, key_vars, exec_vars, mock_vars, drain_vars,
                conc_vars, cli_vars, env_vars, req_vars>>

\* shell_integration_test.rs:136-145: a hook writes the session context
\* after a command.
hook_write ==
    /\ ~loaded.called
    /\ \E cmd \in LastCommands, code \in ExitCodes, sh \in ShellTypes :
         files' = [files EXCEPT ![SessionContextPath] = HookJson(cmd, code, "/tmp", sh)]
    /\ UNCHANGED loaded
    /\ UNCHANGED shell_rest

\* shell.rs:29-41, ShellContext::save
save ==
    /\ ~loaded.called
    /\ \E ctx \in SavedContexts :
         files' = [files EXCEPT ![ContextPath] = to_string_pretty(ctx)]
    /\ UNCHANGED loaded
    /\ UNCHANGED shell_rest

\* shell.rs:16-26, ShellContext::load
load ==
    /\ ~loaded.called
    /\ loaded' = ShellContext_load(files)
    /\ UNCHANGED files
    /\ UNCHANGED shell_rest

NextShell ==
    \/ hook_write
    \/ save
    \/ load

SpecShell == InitShell /\ [][NextShell]_vars

(***************************************************************************)
(* SpecEnv: an adapter is constructed from the environment, and a          *)
(* constructed adapter is asked to stream.                                 *)
(***************************************************************************)
Models == {"gpt-4o-mini", "claude-3-5-sonnet-20241022", "gemini-2.0-flash-exp"}
EnvValues == {NotPresent, NotUnicode, Present("sk-test"), Present("")}

InitEnv ==
    /\ ai_provider \in CloudProviders
    /\ frames = <<>>
    /\ pc = "idle"
    /\ chunk_start = 0
    /\ received = 0
    /\ item = NoItem
    /\ response = <<>>
    /\ result = NoItem
    /\ http = NoExchange
    /\ NoSession
    /\ NoKeyEvent
    /\ NoCommand
    /\ NoMock
    /\ NoDrain
    /\ NoRequests
    /\ NoInvocation
    /\ NoShellContext
    /\ environment \in [EnvNames -> EnvValues]
    /\ model_arg = ""
    /\ client = NoClient
    /\ NoTranslation

\* ai_connectivity.rs:172, 302, 370: XClient::from_env(model)
construct_from_env ==
    /\ ~client.called
    /\ \E model \in Models :
         /\ model_arg' = model
         /\ client' = from_env(ai_provider, model, environment)
    /\ UNCHANGED environment
    /\ UNCHANGED <<brain_vars, tui_vars, key_vars, exec_vars, mock_vars, drain_vars,
                   conc_vars, cli_vars, shell_vars, req_vars>>

\* ai_connectivity.rs:172-188: the adapter from_env returned is asked to
\* stream; there is none to ask when from_env failed.
NextEnv ==
    \/ construct_from_env
    \/ (client.ok /\ stream_completion_ok)
    \/ (client.ok /\ stream_completion_err)

SpecEnv == InitEnv /\ [][NextEnv]_vars

(***************************************************************************)
(* SpecRequest: a CompletionRequest is handed to an adapter, which builds  *)
(* the body of its request.                                                *)
(***************************************************************************)
MaxContext == 2

ContextFiles == { <<"b.rs", "fn b() {}">>, <<"a.rs", "fn a() {}">> }
HistoryLines == {"ls -la", "cd /tmp"}
SystemPrompts == {"You are a shell assistant."}
UserQueries == {"list files"}

SeqsUpTo(S, n) == UNION { [1..k -> S] : k \in 0..n }

CompletionRequests ==
    { CompletionRequest(sp, q, fs, h) :
        sp \in SystemPrompts, q \in UserQueries,
        fs \in SeqsUpTo(ContextFiles, MaxContext),
        h \in SeqsUpTo(HistoryLines, MaxContext) }

InitRequest ==
    /\ ai_provider = "openai"
    /\ frames = <<>>
    /\ pc = "idle"
    /\ chunk_start = 0
    /\ received = 0
    /\ item = NoItem
    /\ response = <<>>
    /\ result = NoItem
    /\ http = NoExchange
    /\ NoSession
    /\ NoKeyEvent
    /\ NoCommand
    /\ NoMock
    /\ NoDrain
    /\ NoRequests
    /\ NoInvocation
    /\ NoShellContext
    /\ NoEnvironment
    /\ request \in CompletionRequests
    /\ translated = NotTranslated

\* openai.rs:127, anthropic.rs:115, gemini.rs:124, ollama.rs:99: stream_impl
\* builds the body of its request from req.
build_request ==
    /\ ~translated.done
    /\ \E provider \in Providers :
         translated' = [done |-> TRUE, provider |-> provider,
                        body |-> build_request_body(provider, request)]
    /\ UNCHANGED request
    /\ UNCHANGED <<brain_vars, tui_vars, key_vars, exec_vars, mock_vars, drain_vars,
                   conc_vars, cli_vars, shell_vars, env_vars>>

NextRequest == build_request

SpecRequest == InitRequest /\ [][NextRequest]_vars

(***************************************************************************)
(* Vocabulary of the properties                                            *)
(***************************************************************************)
\* A chunk has been decoded and `item` is the item the stream yielded for it.
Pulled == chunk_start < received

\* The latest chunk starts at the start of a line and ends with a terminator.
WholeLineChunk ==
    /\ Pulled
    /\ wire[received] = LF
    /\ chunk_start = 0 \/ wire[chunk_start] = LF

\* The lines of the latest chunk, as the adapter's closure split them.
Ls == lines(from_utf8_lossy(chunk))

\* The per-line loop of the provider's closure, run on the lines ls.
decode_lines(provider, ls) ==
    CASE provider = "openai" -> OpenAILines(ls, <<>>)
      [] provider = "anthropic" -> AnthropicLines(ls, <<>>)
      [] provider = "gemini" -> GeminiLines(ls, <<>>)
      [] provider = "ollama" -> OllamaLines(ls, <<>>)

\* Whether the provider's structure deserializes from the text s.
Deserializes(provider, s) ==
    CASE provider = "openai" -> OpenAIStreamChunk_from_str(s).ok
      [] provider = "anthropic" -> AnthropicStreamEvent_from_str(s).ok
      [] provider = "gemini" -> GeminiStreamResponse_from_str(s).ok
      [] provider = "ollama" -> OllamaStreamChunk_from_str(s).ok

Without(ls, Drop(_)) == SelectSeq(ls, LAMBDA l : ~Drop(l))
Has(ls, P(_)) == \E i \in 1..Len(ls) : P(ls[i])

\* The content characters of a line, in wire order.
CharsOf(l) == SelectSeq(l, LAMBDA x : x \in TextChars)

\* The body holds complete frames only.
CompleteBody == \A i \in 1..Len(frames) : frames[i].kind # "partial"

\* The content the frames carry, in frame order.
BodyText == Concat([i \in 1..Len(frames) |-> frames[i].text])

\* The item the closure yields when the whole body arrives as one chunk.
WholeDecode == stream_item(ai_provider, wire)

DecodeErrors == {"Failed to parse SSE", "Failed to parse NDJSON"}

\* The incomplete last line of the first p symbols of the body.
Carry(p) ==
    LET nls == {i \in 1..p : wire[i] = LF}
        last == IF nls = {} THEN 0 ELSE CHOOSE i \in nls : \A j \in nls : j <= i
    IN SubSeq(wire, last + 1, p)

\* The text up to and including its last line terminator.
CompletePart(text) ==
    LET nls == {i \in 1..Len(text) : text[i] = LF}
        last == IF nls = {} THEN 0 ELSE CHOOSE i \in nls : \A j \in nls : j <= i
    IN SubSeq(text, 1, last)

IsSentinelLine(l) == HasDataPrefix(l) /\ Trim(strip_prefix(l)) = <<DONE>>
IsCommentOrBlankLine(l) == ~HasDataPrefix(l)
IsBadControlLine(l) == HasDataPrefix(l) /\ Trim(strip_prefix(l)) \in {<<OBAD>>, <<ABAD>>}
IsBadContentLine(l) ==
    /\ HasDataPrefix(l)
    /\ Trim(strip_prefix(l)) # <<>>
    /\ Head(Trim(strip_prefix(l))) \in {OC, AD}
    /\ ~Deserializes(ai_provider, strip_prefix(l))

(***************************************************************************)
(* C1.  Chunk-boundary invariance: for a body of complete frames, however  *)
(* it is split into chunks, the text pulled from the stream is the text    *)
(* the same body gives as one chunk, and the stream fails with a decode    *)
(* error only if the one-chunk decoding fails.                             *)
(***************************************************************************)
C1_ChunkBoundaryInvariance ==
    CompleteBody =>
        /\ pc = "done" => WholeDecode.ok /\ response = WholeDecode.text
        /\ (pc = "failed" /\ item.err \in DecodeErrors) => ~WholeDecode.ok

(***************************************************************************)
(* C2.  An incomplete trailing line is held back: the item for a chunk is  *)
(* what the complete lines of (held-back text + chunk) decode to, so a     *)
(* chunk ending mid-line gives no fragment and no error for the unfinished *)
(* line, and the line is decoded once the next chunk completes it.         *)
(***************************************************************************)
C2_IncompleteLineBuffered ==
    Pulled =>
        item = stream_item(ai_provider, CompletePart(Carry(chunk_start) \o chunk))

(***************************************************************************)
(* C3.  A body that ends inside a line never ends in success: when the     *)
(* connection closes after an incomplete last line, process_query does not *)
(* return Ok.                                                              *)
(***************************************************************************)
C3_TruncatedBodyIsError ==
    (pc = "done" /\ wire # <<>>) => wire[Len(wire)] = LF

(***************************************************************************)
(* C4.  In-order, lossless delivery: when the stream has been pulled to    *)
(* its end without error, the accumulated text is the content of the       *)
(* frames received, in frame order and in within-frame order.              *)
(***************************************************************************)
C4_WireOrderNoLoss ==
    pc = "done" => response = BodyText

(***************************************************************************)
(* C5.  Event-stream adapters skip a data line whose payload is malformed  *)
(* and is not a content delta: the item of a chunk of complete lines is    *)
(* the item the same chunk gives without those lines (no error, the other  *)
(* content kept).                                                          *)
(***************************************************************************)
C5_MalformedNonContentSkipped ==
    (ai_provider \in EventStreamProviders /\ WholeLineChunk) =>
        item = decode_lines(ai_provider, Without(Ls, IsBadControlLine))

(***************************************************************************)
(* C6.  Event-stream adapters abort on a malformed content-delta payload:  *)
(* a chunk of complete lines that holds one yields an error item and       *)
(* nothing is delivered after it.                                          *)
(***************************************************************************)
C6_MalformedContentAborts ==
    (ai_provider \in EventStreamProviders /\ WholeLineChunk
        /\ Has(Ls, IsBadContentLine)) =>
        ~item.ok /\ pc = "failed"

(***************************************************************************)
(* C7.  In the event-stream adapters a data line whose payload is the      *)
(* sentinel [DONE], with or without whitespace around it, gives no         *)
(* fragment and no error, and neither does any line that is not a content  *)
(* delta (comment and blank lines, events without content): the item of    *)
(* every chunk is the item of the same chunk without those lines.          *)
(***************************************************************************)
IsEventWithoutContent(l) ==
    HasDataPrefix(l) /\ Trim(strip_prefix(l)) \in {<<ONONE>>, <<APING>>}

IsSentinelOrNonDataLine(l) ==
    IsSentinelLine(l) \/ IsCommentOrBlankLine(l) \/ IsEventWithoutContent(l)

IsMessageWithoutDone(t) ==
    Len(t) >= 2 /\ t[1] = OM /\ t[Len(t)] = OMA /\ IsText(Inner(t))

\* The content a line of the Ollama protocol carries.
OllamaLineContent(l) == IF Trim(l) # <<>> /\ Head(Trim(l)) = OM THEN CharsOf(l) ELSE <<>>

NonBlank(ls) == SelectSeq(ls, LAMBDA l : Trim(l) # <<>>)

\* C8 as stated: content is emitted whether the done flag is true, false or
\* absent, and the flag never causes an error.
C8_DoneFlagIrrelevant ==
    (ai_provider = "ollama" /\ Pulled
        /\ \A i \in 1..Len(NonBlank(Ls)) :
              \/ IsOllamaObject(Trim(NonBlank(Ls)[i]))
              \/ IsMessageWithoutDone(Trim(NonBlank(Ls)[i]))) =>
        /\ item.ok
        /\ item.text = Concat([i \in 1..Len(Ls) |-> OllamaLineContent(Ls[i])])

\* C8 amended: the Ollama decoder never reads the done flag.  When every
\* non-blank line of a chunk deserializes, the item is the content of all its
\* lines in order, whether a line's flag is true or false and also for lines
\* after a done=true line, and the stream goes on; a line without a done flag
\* does not deserialize and makes the item of its chunk a decode error.
C8_DoneFlagPresentIrrelevant ==
    (ai_provider = "ollama" /\ Pulled) =>
        /\ (\A i \in 1..Len(NonBlank(Ls)) : IsOllamaObject(Trim(NonBlank(Ls)[i]))) =>
              /\ item.ok
              /\ item.text = Concat([i \in 1..Len(Ls) |-> OllamaLineContent(Ls[i])])
              /\ pc = "streaming" \/ (pc = "done" /\ received = Len(wire))
        /\ Has(Ls, LAMBDA l : IsMessageWithoutDone(Trim(l))) => ~item.ok

\* A chunk held a done=true line followed by a line with content, and the
\* content of the later line was delivered.
C8_Witness ==
    /\ ai_provider = "ollama"
    /\ Pulled
    /\ item.ok
    /\ \E i, j \in 1..Len(Ls) :
          /\ i < j
          /\ Trim(Ls[i]) # <<>> /\ Trim(Ls[i])[Len(Trim(Ls[i]))] \in {OMT, OSTAT}
          /\ OllamaLineContent(Ls[j]) # <<>>
          /\ item.text = OllamaLineContent(Ls[i]) \o OllamaLineContent(Ls[j])

(***************************************************************************)
(* C9.  Gemini and Ollama treat a malformed line alike: on the same chunk  *)
(* of complete lines, each either accepted by both or rejected by both,    *)
(* the two decoders' items are both Ok or both Err.                        *)
(***************************************************************************)
C9_UniformMalformedPolicy ==
    (ai_provider \in LineJsonProviders /\ WholeLineChunk
        /\ \A i \in 1..Len(Ls) :
              GeminiStreamResponse_from_str(Ls[i]).ok
                  = OllamaStreamChunk_from_str(Ls[i]).ok) =>
        GeminiLines(Ls, <<>>).ok = OllamaLines(Ls, <<>>).ok

(***************************************************************************)
(* C10.  Gemini: the item of a chunk is the text of every line that        *)
(* deserializes, line after line, and within a line every non-empty part   *)
(* text in candidate order and then part order (the order of the wire);    *)
(* the accumulated response ends with that item.                           *)
(***************************************************************************)
GeminiLineContent(l) ==
    IF GeminiStreamResponse_from_str(l).ok THEN CharsOf(l) ELSE <<>>

C10_CandidatesAndPartsInOrder ==
    (ai_provider = "gemini" /\ Pulled) =>
        /\ item.ok
        /\ item.text = Concat([i \in 1..Len(Ls) |-> GeminiLineContent(Ls[i])])
        /\ Len(response) >= Len(item.text)
        /\ SubSeq(response, Len(response) - Len(item.text) + 1, Len(response))
              = item.text

\* One chunk held a line with two candidates, the first of several parts,
\* followed by another line with content; all of it was delivered in order.
C10_Witness ==
    /\ ai_provider = "gemini"
    /\ Pulled
    /\ Len(Ls) = 2
    /\ Has(Ls[1], LAMBDA x : x = GCAND) /\ Has(Ls[1], LAMBDA x : x = GPART)
    /\ GeminiStreamResponse_from_str(Ls[1]).ok
    /\ item.text = <<"a", "b", EACUTE, "a">>

(***************************************************************************)
(* Vocabulary of the properties of the round trip                          *)
(***************************************************************************)
\* sub occurs in s as a run of consecutive elements.
IsInfix(sub, s) ==
    \E i \in 0..(Len(s) - Len(sub)) : SubSeq(s, i + 1, i + Len(sub)) = sub

\* The call failed before it returned: no connection, or a non-success status.
CallFailed == http.requested /\ (~http.connected \/ ~is_success(http.status))

\* The provider answered with a non-success status.
NonSuccessStatus == http.connected /\ ~is_success(http.status)

\* The provider answered with a success status and the body arrived.
SuccessBodyRead == http.connected /\ is_success(http.status) /\ http.read

\* The response the provider sent with the success status.
SentResponse == CHOOSE fr \in FixResponsesOf(ai_provider) : fr.bytes = http.body

RECURSIVE as_bytes(_)
\* The bytes of a text: e-acute is two bytes, every other character one.
as_bytes(text) ==
    IF text = <<>> THEN <<>>
    ELSE (IF Head(text) = EACUTE THEN <<XC3, XA9>> ELSE <<Head(text)>>)
         \o as_bytes(Tail(text))

RECURSIVE Join(_, _)
\* The sequences ss one after the other with sep between them.
Join(ss, sep) ==
    IF ss = <<>> THEN <<>>
    ELSE IF Len(ss) = 1 THEN Head(ss)
    ELSE Head(ss) \o <<sep>> \o Join(Tail(ss), sep)

\* The streamed body that carries the candidates cands (each a sequence of
\* part texts) in the provider's streaming protocol.
StreamBodyOf(provider, cands) ==
    CASE provider = "openai" ->
           <<P1, P2, OC>>
           \o Join([i \in 1..Len(cands) |-> as_bytes(Concat(cands[i]))], OSEP)
           \o <<OCL, LF>>
      [] provider = "anthropic" ->
           Concat([j \in 1..Len(cands[1]) |->
                      <<P1, P2, AD>> \o as_bytes(cands[1][j]) \o <<ADCL, LF>>])
      [] provider = "gemini" ->
           <<GO>>
           \o Join([i \in 1..Len(cands) |->
                       Join([j \in 1..Len(cands[i]) |-> as_bytes(cands[i][j])], GPART)],
                   GCAND)
           \o <<GCL, LF>>
      [] provider = "ollama" ->
           <<OM>> \o as_bytes(Concat(cands[1])) \o <<OMT, LF>>

(***************************************************************************)
(* C11.  A non-success status makes the call fail, in stream_completion    *)
(* and in get_fix_suggestion of every adapter, with no fragment delivered  *)
(* and with an error whose message holds the status code, the response     *)
(* body, and the name of the credential to check.                          *)
(***************************************************************************)
C11_NonSuccessStatusError ==
    NonSuccessStatus =>
        /\ pc = "failed"
        /\ ~result.ok
        /\ response = <<>>
        /\ IsInfix(<<StatusDisplay(http.status)>>, result.message)
        /\ IsInfix(from_utf8_lossy(http.body), result.message)
        /\ Credential(ai_provider) # None
        /\ IsInfix(Credential(ai_provider), result.message)

(***************************************************************************)
(* C12.  As stated: while no item has been pulled from the stream, no      *)
(* request has been made.                                                  *)
(***************************************************************************)
C12_NoNetworkBeforeFirstPull == item = NoItem => ~http.requested

(***************************************************************************)
(* C12, amended.  The stream handle exists only after the request was      *)
(* sent and a success status was seen; a failure with nothing pulled is    *)
(* the failure of the call itself; the body is read only by pulls.         *)
(***************************************************************************)
C12_RequestBeforeHandle ==
    /\ pc = "streaming" => http.requested /\ http.connected /\ is_success(http.status)
    /\ (pc = "failed" /\ item = NoItem) => CallFailed
    /\ received > 0 => item # NoItem

C12_Witness == pc = "streaming" /\ item = NoItem /\ http.requested /\ wire # <<>>

(***************************************************************************)
(* C14.  As stated: get_fix_suggestion returns text, never an error,       *)
(* whatever the outcome of the round trip.                                 *)
(***************************************************************************)
C14_NeverAnError == pc # "idle" => result.ok

(***************************************************************************)
(* C14, amended.  get_fix_suggestion returns an error exactly when the     *)
(* connection fails, the status is not a success, or the body cannot be    *)
(* read as a response object; otherwise it returns text, and that text is  *)
(* 'No response from model' when the response holds no candidate.          *)
(***************************************************************************)
C14_ErrorOnlyOnFailedRoundTrip ==
    pc # "idle" =>
        /\ ~result.ok <=>
             (CallFailed \/ ~http.read \/ SentResponse.kind = "bad")
        /\ (result.ok /\ SentResponse.kind = "none") =>
             result.text = <<"No response from model">>
        /\ (result.ok /\ SentResponse.kind = "answer") =>
             result.text # <<"No response from model">>

C14_Witness ==
    pc = "done" /\ SentResponse.kind = "none"
    /\ result.text = <<"No response from model">>

(***************************************************************************)
(* C15.  On a success response with at least one candidate,                *)
(* get_fix_suggestion returns the whole text of the first candidate, the   *)
(* text of all its parts in order, and nothing of a later candidate.       *)
(***************************************************************************)
C15_FirstCandidateFullText ==
    (pc # "idle" /\ SuccessBodyRead /\ SentResponse.kind = "answer") =>
        /\ result.ok
        /\ result.text = Concat(SentResponse.candidates[1])

(***************************************************************************)
(* C16.  Content equivalence: the text get_fix_suggestion returns for a    *)
(* response is the concatenation of the fragments the provider's stream    *)
(* yields for a body carrying the same candidates and parts.               *)
(***************************************************************************)
C16_ContentEquivalence ==
    (pc # "idle" /\ SuccessBodyRead /\ SentResponse.kind = "answer") =>
        LET streamed ==
                stream_item(ai_provider,
                            StreamBodyOf(ai_provider, SentResponse.candidates))
        IN /\ result.ok
           /\ streamed.ok
           /\ streamed.text = result.text

(***************************************************************************)
(* C17.  process_query pulls the stream to its end and returns the         *)
(* fragments concatenated in arrival order with the whitespace at both     *)
(* ends removed and nothing else changed.                                  *)
(***************************************************************************)
\* t is s without its leading and trailing whitespace.
IsTrimOf(t, s) ==
    /\ t # <<>> => (t[1] \notin Whitespace /\ t[Len(t)] \notin Whitespace)
    /\ \E i \in 0..Len(s) : \E j \in i..Len(s) :
         /\ SubSeq(s, i + 1, j) = t
         /\ \A k \in 1..i : s[k] \in Whitespace
         /\ \A k \in (j + 1)..Len(s) : s[k] \in Whitespace

\* A pull appends the pulled fragment, and nothing else changes the text.
FragmentAppended ==
    IF received' # received /\ item'.ok
    THEN response' = response \o item'.text
    ELSE response' = response

C17_ConcatenatedTrimmed ==
    /\ [](pc = "done" =>
            /\ received = Len(wire)
            /\ result.ok
            /\ IsTrimOf(result.text, response))
    /\ [][FragmentAppended]_vars

C17_Witness ==
    /\ pc = "done"
    /\ result.text # response
    /\ \E k \in 1..Len(result.text) : result.text[k] = SP

(***************************************************************************)
(* C18.  process_query fails exactly when stream_completion failed or a    *)
(* pulled item is an error; it returns that error and no text, and pulls   *)
(* nothing more afterwards.                                                *)
(***************************************************************************)
C18_FailsOnFirstError ==
    /\ []((pc = "failed") <=> (CallFailed \/ ~item.ok))
    /\ [](pc = "failed" =>
            /\ ~result.ok
            /\ result.text = <<>>
            /\ ~item.ok => result = item)
    /\ [](pc # "failed" => result.ok)
    /\ [][pc # "failed"]_vars

C18_Witness == pc = "failed" /\ ~item.ok /\ response # <<>> /\ received < Len(wire)

(***************************************************************************)
(* C20.  Between the Enter that starts a query and the answer's arrival in *)
(* Review, the loop draws at least one frame in Thinking mode.             *)
(***************************************************************************)
C20_ThinkingIsDrawn == state.mode = "Review" => "Thinking" \in terminal

(***************************************************************************)
(* The key handler, under SpecKeys                                         *)
(***************************************************************************)
\* handle_key_event was called: on `before`, with `last_key`, giving `state`
\* and `exit_requested`.
KeyHandled == last_key # NoKey

DropLast(s) == IF s = <<>> THEN <<>> ELSE SubSeq(s, 1, Len(s) - 1)

\* C21: in Input mode, Enter with a non-empty buffer sets the mode to
\* Thinking and raises should_process_query and changes nothing else; Enter
\* with an empty buffer changes nothing; a character key appends its
\* character to the buffer and Backspace removes the last character (nothing
\* on an empty buffer), and neither changes anything else, the mode included;
\* none of these requests exit.
C21_InputMode ==
    (KeyHandled /\ before.mode = "Input" /\ ~IsCtrlC(last_key)) =>
        /\ (last_key.code = "Enter" /\ before.input_buffer # <<>>) =>
              /\ state = [before EXCEPT !.mode = "Thinking",
                                        !.should_process_query = TRUE]
              /\ ~exit_requested
        /\ (last_key.code = "Enter" /\ before.input_buffer = <<>>) =>
              /\ state = before
              /\ ~exit_requested
        /\ last_key.code = "Char" =>
              /\ state = [before EXCEPT !.input_buffer = Append(@, last_key.char)]
              /\ ~exit_requested
        /\ last_key.code = "Backspace" =>
              /\ state = [before EXCEPT !.input_buffer = DropLast(@)]
              /\ ~exit_requested

C21_Witness ==
    /\ KeyHandled
    /\ before.mode = "Input"
    /\ before.input_buffer = <<"a", "c">>
    /\ last_key.code = "Enter"
    /\ state.mode = "Thinking"
    /\ state.should_process_query

\* C22: in Thinking mode Ctrl+C requests exit, no other key does, and no key
\* changes any field of the state.
C22_ThinkingOnlyInterrupt ==
    (KeyHandled /\ before.mode = "Thinking") =>
        /\ exit_requested <=> IsCtrlC(last_key)
        /\ state = before

C22_Witness ==
    /\ KeyHandled
    /\ before.mode = "Thinking"
    /\ last_key.code = "Esc"
    /\ ~exit_requested

\* C23: should_execute is raised only by Enter in Review and
\* should_apply_patch only by Enter in Diff; after an exit requested by
\* Escape or Ctrl+C, in any mode, should_execute, should_apply_patch and
\* should_process_query are all false and no command is printed.
C23_ExitFlags ==
    KeyHandled =>
        /\ state.should_execute # before.should_execute =>
              (state.should_execute /\ before.mode = "Review" /\ last_key.code = "Enter")
        /\ state.should_apply_patch # before.should_apply_patch =>
              (state.should_apply_patch /\ before.mode = "Diff" /\ last_key.code = "Enter")
        /\ (exit_requested /\ (last_key.code = "Esc" \/ IsCtrlC(last_key))) =>
              /\ ~state.should_execute
              /\ ~state.should_apply_patch
              /\ ~state.should_process_query
              /\ printed_command(state) = None

C23_Witness ==
    /\ KeyHandled
    /\ before.mode = "Review"
    /\ before.suggested_command # None
    /\ last_key.code = "Esc"
    /\ exit_requested
    /\ printed_command(state) = None

\* C24: in Diff mode Up at offset 0 leaves the offset 0, Down at 65535 leaves
\* it 65535, any other Up or Down changes it by exactly 1, and the offset
\* stays within 0..65535; nothing else changes.
C24_ScrollSaturates ==
    (KeyHandled /\ before.mode = "Diff" /\ ~IsCtrlC(last_key)) =>
        /\ state.scroll_position \in 0..U16Max
        /\ last_key.code = "Up" =>
              state = [before EXCEPT !.scroll_position = IF @ = 0 THEN 0 ELSE @ - 1]
        /\ last_key.code = "Down" =>
              state = [before EXCEPT !.scroll_position =
                                        IF @ = U16Max THEN U16Max ELSE @ + 1]

C24_Witness ==
    /\ KeyHandled
    /\ before.mode = "Diff"
    /\ before.scroll_position = U16Max
    /\ last_key.code = "Down"
    /\ state.scroll_position = U16Max

\* C25: in Review mode Tab flips show_explanation, changes no other field
\* and does not request exit; a second Tab gives back the state before the
\* first.
C25_TabFlipsOnly ==
    (KeyHandled /\ before.mode = "Review" /\ last_key.code = "Tab") =>
        /\ state = [before EXCEPT !.show_explanation = ~@]
        /\ ~exit_requested

C25_TabTwiceRestores ==
    (/\ KeyHandled /\ before.mode = "Review" /\ last_key.code = "Tab"
     /\ before' = state /\ last_key'.code = "Tab")
        => state' = before

C25_TabToggle == []C25_TabFlipsOnly /\ [][C25_TabTwiceRestores]_vars

C25_Witness ==
    /\ KeyHandled
    /\ before.mode = "Review"
    /\ before.show_explanation
    /\ last_key.code = "Tab"
    /\ ~state.show_explanation


(***************************************************************************)
(* Destructive-command classification, under SpecExec                      *)
(***************************************************************************)
Analysed == analysis # NoAnalysis

\* Some entry of the danger list occurs in cmd when letter case is ignored.
HoldsDangerEntry(cmd) ==
    \E i \in 1..Len(dangerous_patterns) :
        contains(to_lowercase(cmd), to_lowercase(dangerous_patterns[i]))

\* C26: a command is classified destructive exactly when some entry of the
\* danger list occurs in it ignoring letter case, whichever entry it is.
C26_CaseInsensitiveDangerList ==
    Analysed => (analysis.is_destructive <=> HoldsDangerEntry(analysis.command))


(***************************************************************************)
(* The test double, under SpecMock                                         *)
(***************************************************************************)
Asked == query # NoQuery

SameIgnoringCase(a, b) == to_lowercase(a) = to_lowercase(b)
ContainsIgnoringCase(a, b) == contains(to_lowercase(a), to_lowercase(b))

KnownEntries == { mock.responses[i] : i \in 1..Len(mock.responses) }

\* The known entries whose key equals q, occurs in q, or holds q, ignoring
\* letter case.
EqualEntries(q) == { e \in KnownEntries : SameIgnoringCase(e.key, q) }
ContainedEntries(q) == { e \in KnownEntries : ContainsIgnoringCase(q, e.key) }
MatchingEntries(q) ==
    { e \in KnownEntries :
        ContainsIgnoringCase(q, e.key) \/ ContainsIgnoringCase(e.key, q) }

\* C27: a query equal to a known key ignoring case is answered with that
\* key's command; a query that equals no key but contains one is answered
\* with the command of a key it contains; a query matching no key is
\* answered with the configured default; every item of the stream is Ok.
C27_CaseInsensitiveTotal ==
    Asked =>
        /\ \A e \in EqualEntries(query) : answer = e.value
        /\ (EqualEntries(query) = {} /\ ContainedEntries(query) # {}) =>
              \E e \in ContainedEntries(query) : answer = e.value
        /\ MatchingEntries(query) = {} => answer = mock.default_response
        /\ \A i \in 1..Len(pieces) : pieces[i].ok

\* C28: two providers constructed by the same calls give the same response
\* to every query.
C28_Deterministic ==
    Asked => answer = twin_answer

\* C29: after with_response(q, r), the query q is answered with r, whatever
\* the letter case of q and whatever was predefined for it.
C29_CustomResponseReturned ==
    (Asked /\ custom # <<>> /\ query = custom[Len(custom)].query) =>
        answer = custom[Len(custom)].response

Flatten(ps) == Concat([i \in 1..Len(ps) |-> ps[i].text])

\* C30: every item of the stream is Ok, every piece but the last has exactly
\* 5 characters, the last has 1 to 5, and the pieces in order make up the
\* answer; an empty answer gives a stream without items.
C30_FixedSizePieces ==
    Asked =>
        /\ \A i \in 1..Len(pieces) : pieces[i].ok
        /\ \A i \in 1..(Len(pieces) - 1) : Len(pieces[i].text) = ChunkSize
        /\ pieces # <<>> => Len(pieces[Len(pieces)].text) \in 1..ChunkSize
        /\ Flatten(pieces) = answer
        /\ answer = <<>> => pieces = <<>>

C30_Witness ==
    /\ Asked
    /\ answer = Chars("ls -la")
    /\ Len(pieces) = 2
    /\ pieces[1].text = Chars("ls -l")
    /\ pieces[2].text = Chars("a")

\* The known entries whose key, as stored, equals the lowercased query,
\* occurs in it, or holds it.
ExactEntries(q) == { e \in KnownEntries : e.key = to_lowercase(q) }
SubstringEntries(q) ==
    { e \in KnownEntries :
        contains(to_lowercase(q), e.key) \/ contains(e.key, to_lowercase(q)) }

C37_ReviewHasCommand ==
    /\ state.mode = "Review" =>
          (state.suggested_command # None /\ state.command_explanation # None)
    /\ state.should_process_query => state.mode = "Thinking"
    /\ (loop_pc = "exited" /\ state.should_execute) => printed_command(state) # None

C37_Witness ==
    /\ loop_pc = "exited"
    /\ state.should_execute
    /\ state.mode = "Review"
    /\ printed_command(state) = state.suggested_command
    /\ state.suggested_command # None

\* The mode changes the loop makes.
ModeSteps == { <<"Input", "Thinking">>, <<"Thinking", "Review">> }

QueryProcessedOnce ==
    \/ state.chat_history = <<>>
    \/ /\ Len(state.chat_history) = 2
       /\ state.chat_history[1].role = "user"
       /\ state.chat_history[2].role = "assistant"

C38_NeverDiff ==
    /\ state.mode # "Diff"
    /\ ~state.should_apply_patch
    /\ QueryProcessedOnce

C38_ModeStep ==
    state'.mode # state.mode => <<state.mode, state'.mode>> \in ModeSteps

\* C38: the mode only ever steps from Input to Thinking and from Thinking to
\* Review; Diff is never reached, should_apply_patch is never set, and the
\* chat history holds no message or one user message followed by one
\* assistant message.
C38_ForwardOnly == []C38_NeverDiff /\ [][C38_ModeStep]_vars

C38_Witness ==
    /\ state.mode = "Review"
    /\ Len(state.chat_history) = 2
    /\ loop_pc = "poll"
    /\ state.show_explanation


(***************************************************************************)
(* Decode errors of one chunk, under SpecDrain                             *)
(***************************************************************************)
\* The adapter tries to deserialize the line l and fails.
FailsToDecode(l) ==
    CASE ai_provider = "openai" ->
           /\ HasDataPrefix(l)
           /\ Trim(strip_prefix(l)) # <<DONE>>
           /\ ~Deserializes("openai", strip_prefix(l))
      [] ai_provider = "ollama" ->
           /\ Trim(l) # <<>>
           /\ ~Deserializes("ollama", l)

C36_ErrorOfItsChunk ==
    (ai_provider \in DrainedProviders /\ Pulled) =>
        /\ item.ok <=> ~Has(Ls, FailsToDecode)
        /\ ~item.ok => (item.text = <<>> /\ item.err \in DecodeErrors)

C36_ErrorAddsNothing ==
    (received' > received /\ ~item'.ok) => response' = response

\* C36: the item of a chunk is an error exactly when a line of that chunk
\* fails to decode, whatever the items of earlier chunks were; the error
\* item carries no text, so the text of the chunk's earlier lines is not
\* delivered; chunks after it are decoded and give their own items.
C36_DecodeErrorLocal == []C36_ErrorOfItsChunk /\ [][C36_ErrorAddsNothing]_vars

\* An earlier chunk gave an error, and the latest chunk was decoded and gave
\* text, which is all the text the consumer has.
C36_Witness ==
    /\ Pulled
    /\ had_error
    /\ item.ok
    /\ item.text # <<>>
    /\ response = item.text


(***************************************************************************)
(* Requests on a shared provider, under SpecConc                           *)
(***************************************************************************)
\* The fragments the request with query q gets when it runs alone.
Alone(q) == chunks(get_response(mock, q))

IsPrefix(a, b) == Len(a) <= Len(b) /\ SubSeq(b, 1, Len(a)) = a

C31_OwnFragments ==
    \A i \in Requests :
        /\ requests[i].pc = "streaming" => IsPrefix(requests[i].got, Alone(requests[i].query))
        /\ requests[i].pc = "done" => requests[i].got = Alone(requests[i].query)

C31_ProviderUnchanged == mock' = mock

\* C31: however the steps of the requests interleave, each request receives
\* the fragments it would receive alone, in order, and no step changes the
\* provider.
C31_NoInterference == []C31_OwnFragments /\ [][C31_ProviderUnchanged]_vars

\* Two requests with different queries are both in the middle of their
\* streams.
C31_Witness ==
    /\ requests[1].pc = "streaming"
    /\ requests[2].pc = "streaming"
    /\ requests[1].query # requests[2].query
    /\ requests[1].got # <<>>
    /\ requests[2].got # <<>>
    /\ requests[1].stream # <<>>
    /\ requests[2].stream # <<>>


(***************************************************************************)
(* Command-line dispatch, under SpecCli                                    *)
(***************************************************************************)
HasRun == outcome # NotRun

ModeOf(name) ==
    CASE name = "Lens" -> "lens"
      [] name = "Pipe" -> "pipe"
      [] name = "Sentinel" -> "sentinel"
      [] name = "Inject" -> "inject"

InteractionModes == {"lens", "pipe", "sentinel"}

\* C32: a subcommand runs its own mode (lens, pipe, sentinel) or the hook
\* injection (inject) whatever --mode is; without a subcommand --mode
\* selects the mode; anything else prints 'Unknown mode or command' and
\* exits with status 1.
C32_Dispatch ==
    HasRun =>
        IF invocation.command # None
        THEN outcome.ran = ModeOf(invocation.command[1].name)
        ELSE IF invocation.mode \in InteractionModes
        THEN outcome.ran = invocation.mode
        ELSE /\ outcome.ran = "unknown"
             /\ outcome.stderr = "Unknown mode or command"
             /\ outcome.status = 1


(***************************************************************************)
(* The session context, under SpecShell                                    *)
(***************************************************************************)
HookWrote == files[SessionContextPath].exists

\* C33: after a hook has written the session context, load returns
\* Ok(Some(ctx)) with the last_command, last_exit_code, working_directory
\* and shell_type the hook wrote; with no context file it returns Ok(None).
C33_LoadReadsHookFile ==
    loaded.called =>
        /\ HookWrote =>
              /\ loaded.ok
              /\ loaded.context # None
              /\ loaded.context[1].last_command
                    = Some(files[SessionContextPath].last_command.val)
              /\ loaded.context[1].last_exit_code
                    = Some(files[SessionContextPath].last_exit_code.val)
              /\ loaded.context[1].working_directory
                    = files[SessionContextPath].working_directory.val
              /\ loaded.context[1].shell_type
                    = files[SessionContextPath].shell_type.val
        /\ (\A path \in ContextPaths : ~files[path].exists) =>
              (loaded.ok /\ loaded.context = None)


(***************************************************************************)
(* The constructors from the environment, under SpecEnv                    *)
(***************************************************************************)
CredentialValue == environment[Credential(ai_provider)[1]]

NoNetworkActivity == ~http.requested

\* C34 as stated: from_env fails, before any network activity and with an
\* error naming the variable, when the variable is unset, and whenever the
\* variable is set it builds a client whose model_name() is the model passed.
C34_FailsOnlyWhenUnset ==
    /\ ~client.called => NoNetworkActivity
    /\ client.called =>
        /\ ~CredentialValue.set =>
              /\ ~client.ok
              /\ IsInfix(Credential(ai_provider), client.error)
              /\ NoNetworkActivity
        /\ CredentialValue.set =>
              /\ client.ok
              /\ model_name(client) = model_arg

\* C34, amended: from_env fails, before any network activity and with an
\* error naming the variable, when the variable is unset or its value is not
\* valid Unicode; otherwise it builds a client whose model_name() is the
\* model passed.
C34_FailsFast ==
    /\ ~client.called => NoNetworkActivity
    /\ client.called =>
        /\ (~CredentialValue.set \/ ~CredentialValue.unicode) =>
              /\ ~client.ok
              /\ IsInfix(Credential(ai_provider), client.error)
              /\ NoNetworkActivity
        /\ (CredentialValue.set /\ CredentialValue.unicode) =>
              /\ client.ok
              /\ model_name(client) = model_arg

C34_Witness ==
    /\ client.called
    /\ CredentialValue = NotUnicode
    /\ ~client.ok
    /\ \E name \in EnvNames : environment[name] = Present("sk-test")


(***************************************************************************)
(* The request translation, under SpecRequest                              *)
(***************************************************************************)
\* The messages of the body, each with its role and its text.
MessagesOf(t) ==
    CASE t.provider \in {"openai", "ollama"} -> t.body
      [] t.provider = "anthropic" -> t.body.messages
      [] t.provider = "gemini" ->
           [i \in 1..Len(t.body.contents) |->
               Message(t.body.contents[i].role,
                       Concat([j \in 1..Len(t.body.contents[i].parts) |->
                                  t.body.contents[i].parts[j].text]))]

\* The system contents of the body, in order.
SystemContentsOf(t) ==
    CASE t.provider \in {"openai", "ollama"} ->
           LET sys == SelectSeq(t.body, LAMBDA m : m.role = "system")
           IN [i \in 1..Len(sys) |-> sys[i].content]
      [] t.provider = "anthropic" -> <<t.body.system>>
      [] t.provider = "gemini" ->
           IF t.body.system_instruction = None THEN <<>>
           ELSE <<Concat([j \in 1..Len(t.body.system_instruction[1].parts) |->
                             t.body.system_instruction[1].parts[j].text])>>

\* Every piece of text of the body: the system contents, then the messages
\* that are not system messages.
RequestText(t) ==
    LET rest == SelectSeq(MessagesOf(t), LAMBDA m : m.role # "system")
    IN Concat(SystemContentsOf(t)) \o Concat([i \in 1..Len(rest) |-> rest[i].content])

Occurrences(piece, text) == Cardinality({ i \in 1..Len(text) : text[i] = piece })

FileNames == { f[1] : f \in ContextFiles }
FileContents == { f[2] : f \in ContextFiles }

\* C35: the user query is in exactly one user-role message, the last one;
\* the system prompt opens the first system content; the context files and
\* the history lines come in the order of the request; and a section is
\* there exactly when its list is not empty.
C35_RequestTranslation ==
    translated.done =>
        LET ms == MessagesOf(translated)
            sys == SystemContentsOf(translated)
            text == RequestText(translated)
        IN /\ ms # <<>>
           /\ { i \in 1..Len(ms) : ms[i].role = "user" } = {Len(ms)}
           /\ Occurrences(request.user_query, ms[Len(ms)].content) = 1
           /\ Occurrences(request.user_query, text) = 1
           /\ sys # <<>>
           /\ IsPrefix(<<request.system_prompt>>, sys[1])
           /\ SelectSeq(text, LAMBDA x : x \in FileNames)
                = [i \in 1..Len(request.context_files) |-> request.context_files[i][1]]
           /\ SelectSeq(text, LAMBDA x : x \in FileContents)
                = [i \in 1..Len(request.context_files) |-> request.context_files[i][2]]
           /\ SelectSeq(text, LAMBDA x : x \in HistoryLines) = request.history
           /\ Occurrences("Context:\n", text)
                = (IF request.context_files # <<>> THEN 1 ELSE 0)
           /\ Occurrences("Recent shell history:\n", text)
                = (IF request.history # <<>> THEN 1 ELSE 0)

C35_Witness ==
    /\ translated.done
    /\ translated.provider = "gemini"
    /\ Len(request.context_files) = 2
    /\ request.context_files[1][1] = "b.rs"
    /\ request.context_files[2][1] = "a.rs"
    /\ Len(request.history) = 2


====
